---- MODULE Spec2Model ----
(***************************************************************************)
(* A model of the st-voyageai-memory extension: the MemoryStorage class    *)
(* (lib/storage.js), the parts of the summarizer and embedding clients the *)
(* write path depends on, and the write-path entry points of index.js.     *)
(*                                                                         *)
(* JavaScript's scheduling is modelled as it is: one thread, and an async  *)
(* function runs without interruption from one await to the next.  Every   *)
(* invocation of an async function is a process (a slot of Procs) whose pc *)
(* names the await it is suspended at; one action is the code between two  *)
(* awaits.  Objects have identity: a store object is an index into heap,   *)
(* and the cache and the processes' locals hold such indexes.              *)
(***************************************************************************)
EXTENDS Integers, Sequences, FiniteSets, TLC

(* ------------------------------ bounds -------------------------------- *)

\* Number of invocations one behaviour starts.
MaxCalls == 2
\* The clock (new Date()) takes the values 0..MaxClock.
MaxClock == 2
\* Longest chat the host hands to storeCurrentChat.
MaxChat == 2
\* Number of times one behaviour starts storeCurrentChat.
MaxBatches == 1
\* Number of times one behaviour changes the chat.
MaxChanges == 1
\* Longest memory collection handed to findTopKSimilar.
MaxMemories == 4
\* Largest topK handed to findTopKSimilar.
MaxTopK == 3
\* Longest list of texts handed to the embedding client, apart from the one
\* list that is one text longer than a batch.
MaxTexts == 3

\* The slots of async invocations: two can be in flight at once, the least
\* that can interleave.
Procs == {1, 2}

\* Character (entity) identifiers of the host.
Chars == {"c1"}
\* The characters where the host goes from one to another.
Entities == {"c1", "c2"}

\* Object indexes: every live object is referenced by a cache entry or by a
\* local of an invocation in flight, so this many are enough.
ObjIds == 1..(Cardinality(Procs) + Cardinality(Chars))

(* --------------------------- program constants ------------------------ *)

\* index.js:500 / index.js:684: minimum length of a message to be stored.
MinMessageLength == 20

\* voyageai.js:108: the most texts embedDocuments sends in one request.
BATCH_SIZE == 128

(* ------------------------------ values -------------------------------- *)

\* "No id field" in a partial memory, "no object" in a reference.
NoId == 0
NoObj == 0
NoTime == -1

\* Ids minted elsewhere (an imported file, a caller-supplied id).  Ids made
\* by generateUUID are 1, 2, ... (nextId); Math.random's 122 bits are
\* modelled as never repeating and never hitting a foreign id.
ForeignIds == {101, 102}

VARIABLES
    cache,          \* MemoryStorage.cache: character id -> object (NoObj: no entry)
    heap,           \* the live store objects, by object index
    localStorage,   \* window.localStorage: character id -> <<>> or <<saved store>>
    now,            \* the clock
    nextId,         \* how many ids generateUUID has made
    proc,           \* the locals of every async invocation in flight
    calls,          \* how many invocations have been started
    isProcessing,   \* index.js:60
    settings,       \* extension_settings[extensionName] (index.js:21-55, 109)
    summarizerClient, \* index.js:58, the SummarizerClient of initClients
    hist            \* history the properties read (no effect on the program):
                    \* saveFailed: some setItem has thrown; batches: how many
                    \* storeCurrentChat runs were started; expect[p]: what was
                    \* last saved for the entity when p called loadMemories
                    \* with no cache entry and every save so far succeeded;
                    \* exported: the text the last exportMemories call
                    \* returned; exportedFrom: the memories it was made of

vars == <<cache, heap, localStorage, now, nextId, proc, calls, isProcessing,
          settings, summarizerClient, hist>>

(* ------------------------- index.js: settings and clients ------------- *)

\* The settings the model reads, with their defaults (index.js:21-55).
defaultSettings ==
    [enabled |-> FALSE, auto_store |-> TRUE, auto_retrieve |-> TRUE,
     summarize_bot |-> TRUE, summarize_user |-> TRUE,
     language |-> "ko", custom_prompt |-> ""]

\* getDefaultPrompts() (part_001:332-337); a prompt is its name.
getDefaultPrompts ==
    [en |-> "DEFAULT_SUMMARIZATION_PROMPT_EN", ko |-> "DEFAULT_SUMMARIZATION_PROMPT_KO"]

\* part_001:85
DEFAULT_SUMMARIZATION_PROMPT == getDefaultPrompts.ko

\* new SummarizerClient(url, key, model, systemPrompt) (part_001:102-108),
\* the part the model reads.  '' stands for every value that || takes as
\* false: null, undefined and the empty string.
SummarizerClient(systemPrompt) ==
    [systemPrompt |-> IF systemPrompt = "" THEN DEFAULT_SUMMARIZATION_PROMPT
                      ELSE systemPrompt]

\* updateConfig({ systemPrompt }) (part_001:301-307) with a systemPrompt that
\* is not undefined.
updateConfig(client, systemPrompt) ==
    [client EXCEPT !.systemPrompt =
        IF systemPrompt = "" THEN DEFAULT_SUMMARIZATION_PROMPT ELSE systemPrompt]

\* No client yet: init has not run.
NoClient == [systemPrompt |-> ""]

\* The extension as init leaves it when no settings were saved before
\* (index.js:66-71).
DefaultExtension ==
    /\ settings = defaultSettings
    /\ summarizerClient = SummarizerClient(defaultSettings.custom_prompt)

(* ------------------------- lib/storage.js: values --------------------- *)

\* A message text, as far as the code looks at it: its length and the length
\* of its trim().
Text(length, trimmed) == [length |-> length, trimmed |-> trimmed]
NoText == Text(0, 0)

\* A partial memory as createMemory builds it; id and timestamp are absent
\* unless the caller put them there.
PartialMemory(id, ts, msg, summary, embedding, role) ==
    [id |-> id, timestamp |-> ts, original_message |-> msg,
     summary |-> summary, embedding |-> embedding, role |-> role]

\* A memory made without the role it was given.
createWithoutRole(originalMessage, summary, embedding, role) ==
    PartialMemory(NoId, NoTime, originalMessage, summary, embedding, "unknown")

\* createMemory(originalMessage, summary, embedding, {role, chatId})
\* (part_000:477-489)
createMemory(originalMessage, summary, embedding, role) ==
    PartialMemory(NoId, NoTime, originalMessage, summary, embedding,
                  IF role = "" THEN "unknown" ELSE role)

\* A record pushed as it was handed over.
PushedAsGiven(uuid, ts, memory) == memory

\* { id: generateUUID(), timestamp: new Date(), ...memory } (part_000:329-333):
\* the spread comes last, so a field the caller supplied replaces the
\* generated one.
NewMemory(uuid, ts, memory) ==
    [memory EXCEPT !.id = IF memory.id # NoId THEN memory.id ELSE uuid,
                   !.timestamp = IF memory.timestamp # NoTime
                                 THEN memory.timestamp ELSE ts]

\* The structure loadMemories creates when nothing could be read
\* (part_000:278-284).
NewStore(characterId, ts) ==
    [character_id |-> characterId, character_name |-> "",
     created_at |-> ts, updated_at |-> ts, memories |-> <<>>]

\* The value of an object index nothing refers to.
NilStore == NewStore("", NoTime)

\* A record as it stands in a file made elsewhere.
ForeignRecord(id) ==
    [id |-> id, timestamp |-> 0, original_message |-> Text(30, 30),
     summary |-> "s", embedding |-> <<1>>, role |-> "user"]

\* What the server returns for data/memories/<id>.json when the file is
\* there; nothing in the program ever writes that file.
FileStore(characterId) ==
    [character_id |-> characterId, character_name |-> "",
     created_at |-> 0, updated_at |-> 0,
     memories |-> <<[ForeignRecord(102) EXCEPT !.summary = "from file"],
                    ForeignRecord(103)>>]

(* ------------------------- JSON --------------------------------------- *)

\* A JSON text is not the value it was made of: strings and numbers are
\* written out, arrays element by element, objects member by member.
JsonString(x) == [json |-> "string", chars |-> x]
JsonNumber(x) == [json |-> "number", digits |-> x]
JsonArray(items) == [json |-> "array", items |-> items]

\* JSON.stringify of one memory record (part_000:414): every member the
\* record has is written; ids, timestamps and texts are strings, the
\* embedding is an array of numbers.
stringifyMemory(m) ==
    [id |-> JsonString(m.id), timestamp |-> JsonString(m.timestamp),
     original_message |-> JsonString(m.original_message),
     summary |-> JsonString(m.summary),
     embedding |-> JsonArray([i \in 1..Len(m.embedding) |->
                                JsonNumber(m.embedding[i])]),
     role |-> JsonString(m.role)]

\* JSON.parse of one memory record (part_000:426).
parseMemory(j) ==
    [id |-> j.id.chars, timestamp |-> j.timestamp.chars,
     original_message |-> j.original_message.chars,
     summary |-> j.summary.chars,
     embedding |-> [i \in 1..Len(j.embedding.items) |->
                        j.embedding.items[i].digits],
     role |-> j.role.chars]

\* A store that writes no embeddings into its export.
stringifyWithoutEmbeddings(data) ==
    [kind |-> "ok",
     memories |-> JsonArray([i \in 1..Len(data.memories) |->
                    stringifyMemory([data.memories[i] EXCEPT !.embedding = <<>>])])]

\* JSON.stringify(data, null, 2) of a store (part_000:414).  Of the members
\* of the text only memories is ever read back (part_000:428-442).
JSONstringify(data) ==
    [kind |-> "ok",
     memories |-> JsonArray([i \in 1..Len(data.memories) |->
                                stringifyMemory(data.memories[i])])]

\* JSON.parse(jsonString) (part_000:426) of a text that parses.
JSONparse(text) ==
    [kind |-> text.kind,
     memories |-> [i \in 1..Len(text.memories.items) |->
                        parseMemory(text.memories.items[i])]]

\* fetch(filePath) (part_000:264-275): the response is ok and parses, is not
\* ok (404), the fetch rejects, or response.json() rejects.
FetchOutcomes == {"ok", "notok", "throws", "badjson"}

\* Values new Date() can return at this moment: the clock has moved on since
\* it was last read, until it reaches MaxClock, where it stays (so both a
\* later and an equal reading occur).
Times == {IF now < MaxClock THEN now + 1 ELSE now}

Ids(memories) == {memories[i].id : i \in 1..Len(memories)}

(* ------------------------- process locals ----------------------------- *)

NoRes == [tag |-> "none"]

\* How far one summarize -> embed -> store unit has come: each stage is
\* "none" (not called), "pending" (called, awaited), "returned" or "threw".
NoStages == [summarize |-> "none", embed |-> "none", store |-> "none"]

IdleProc ==
    [op |-> "none", pc |-> "idle", ent |-> "", data |-> NoObj, after |-> "",
     ret |-> "done", readFailed |-> FALSE,
     mem |-> PartialMemory(NoId, NoTime, NoText, "", <<>>, ""),
     payload |-> [kind |-> "ok", memories |-> <<>>], merge |-> FALSE,
     mid |-> NoId, res |-> NoRes, saveRet |-> "none",
     text |-> NoText, role |-> "", summary |-> "", embedding |-> <<>>,
     stages |-> NoStages, queue |-> <<>>, processed |-> 0, failed |-> 0,
     inputType |-> "", eligible |-> 0, added |-> <<>>,
     toasts |-> [success |-> 0, error |-> 0, warning |-> 0],
     extensionPrompts |-> <<>>,
     call |-> [method |-> "", apiKey |-> "", input |-> [isArray |-> TRUE, items |-> <<>>],
               i |-> 0, allEmbeddings |-> <<>>, requests |-> <<>>,
               status |-> 0],
     args |-> [queryEmbedding |-> <<>>, memories |-> <<>>, topK |-> 0,
               threshold |-> 0]]

\* No addMemory has pushed its record while a retrieval was in flight.
NoAdd == [overlap |-> {}, before |-> <<>>, after |-> <<>>]

\* No call has just returned: a return is handed to the caller at once, so
\* nothing else runs while a slot shows a result.
NoReturn == \A q \in Procs : proc[q].pc # "done"

\* The first free slot: invocations take the free slots in order.
FreeSlot(p) ==
    /\ NoReturn
    /\ proc[p].pc = "idle"
    /\ \A q \in Procs : q < p => proc[q].pc # "idle"

Free(p) == calls < MaxCalls /\ FreeSlot(p)

Call(op) == [IdleProc EXCEPT !.op = op]

\* A storage call returns res: a direct call is over (only what it returned
\* is kept in its slot), a call made by a handler resumes the handler.
Done(loc, res) ==
    IF loc.ret = "done"
    THEN [IdleProc EXCEPT !.op = loc.op, !.pc = "done", !.ent = loc.ent,
                          !.res = res, !.saveRet = loc.saveRet,
                          !.readFailed = loc.readFailed, !.merge = loc.merge,
                          !.added = loc.added]
    ELSE [loc EXCEPT !.pc = loc.ret, !.res = res, !.data = NoObj,
                     !.mem = IdleProc.mem]

(* ------------------------- the storage state -------------------------- *)

\* The three parts of the state MemoryStorage works on, as one value the
\* operators below transform.
World == [cache |-> cache, heap |-> heap, ls |-> localStorage]

Refs(c, pr) == ({c[e] : e \in DOMAIN c} \cup {pr[p].data : p \in Procs}) \ {NoObj}

\* The next state: objects nothing refers to any more are dropped.
Commit(w, pr) ==
    /\ cache' = w.cache
    /\ localStorage' = w.ls
    /\ proc' = pr
    /\ heap' = [i \in DOMAIN w.heap |-> IF i \in Refs(w.cache, pr) THEN w.heap[i]
                                 ELSE NilStore]

Min(S) == CHOOSE x \in S : \A y \in S : x <= y

\* The index a new object gets.
NewObj == Min(DOMAIN heap \ Refs(cache, proc))

(* ------------------------- loadMemories ------------------------------- *)

\* loadMemories up to its first await (part_000:256-265): a cache hit
\* returns the cached object, a miss starts the fetch.  The caller resumes
\* at cont with the object in data.
LoadStart(loc, e, cont) ==
    IF cache[e] # NoObj
    THEN [loc EXCEPT !.ent = e, !.data = cache[e], !.pc = cont,
                     !.readFailed = FALSE]
    ELSE [loc EXCEPT !.ent = e, !.data = NoObj, !.pc = "fetch", !.after = cont,
                     !.readFailed = FALSE]

\* A load that takes every answer for the parsed file.
FetchedAsRead(outcome, e, t) == FileStore(e)

\* The object loadMemories makes of what the fetch gave (part_000:267-284).
Fetched(outcome, e, t) ==
    IF outcome = "ok" THEN FileStore(e) ELSE NewStore(e, t)

\* loadMemories after the fetch (part_000:267-287): the parsed file, or a new
\* empty structure, becomes a new object, is put in the cache and returned.
FetchReturn(p) ==
    /\ UNCHANGED <<settings, summarizerClient>>
    /\ NoReturn
    /\ proc[p].pc = "fetch"
    /\ \E outcome \in FetchOutcomes, t \in Times :
        LET e == proc[p].ent
            w == [World EXCEPT !.heap[NewObj] = Fetched(outcome, e, t),
                               !.cache[e] = NewObj]
        IN  /\ Commit(w, [proc EXCEPT ![p].data = NewObj,
                                      ![p].pc = proc[p].after,
                                      ![p].after = "",
                                      ![p].readFailed = (outcome # "ok")])
            /\ now' = IF outcome = "ok" THEN now ELSE t
            /\ hist' = [hist EXCEPT !.stale = @ \ {NewObj},
                                    !.fetchFailed = @ \/ outcome # "ok"]
    /\ UNCHANGED <<nextId, calls, isProcessing>>

(* ------------------------- saveMemories ------------------------------- *)

\* A save that touches nothing when the write fails.
saveOnlyOnSuccess(w, e, d, ok, t) ==
    IF ok
    THEN [cache |-> [w.cache EXCEPT ![e] = d],
          heap |-> [w.heap EXCEPT ![d].updated_at = t],
          ls |-> [w.ls EXCEPT ![e] = <<[w.heap[d] EXCEPT !.updated_at = t]>>]]
    ELSE w

\* A save that leaves updated_at as it was.
saveWithoutTimestamp(w, e, d, ok, t) ==
    [cache |-> [w.cache EXCEPT ![e] = d],
     heap |-> w.heap,
     ls |-> IF ok THEN [w.ls EXCEPT ![e] = <<w.heap[d]>>] ELSE w.ls]

\* saveMemories(characterId, data) (part_000:296-318) on the state w the
\* caller has already changed: updated_at, cache.set, then setItem, which
\* either stores JSON.stringify(data) or throws (ok = FALSE).  The function
\* has no await inside: it runs in one piece.  Its return value is ok.
saveMemories(w, e, d, ok, t) ==
    LET h == [w.heap EXCEPT ![d].updated_at = t]
    IN  [cache |-> [w.cache EXCEPT ![e] = d],
         heap |-> h,
         ls |-> IF ok THEN [w.ls EXCEPT ![e] = <<h[d]>>] ELSE w.ls]

SaveRet(ok) == IF ok THEN "ok" ELSE "failed"

\* The common end of a mutating call: the save, and the return of res;
\* h is the history up to the save.
SaveAndReturnNoting(p, w, ok, t, res, h) ==
    /\ Commit(saveMemories(w, proc[p].ent, proc[p].data, ok, t),
              [proc EXCEPT ![p] = Done([proc[p] EXCEPT !.saveRet = SaveRet(ok)],
                                       res)])
    /\ now' = t
    /\ hist' = [h EXCEPT !.saveFailed = @ \/ ~ok,
                         !.stale = @ \ {proc[p].data}]

SaveAndReturn(p, w, ok, t, res) == SaveAndReturnNoting(p, w, ok, t, res, hist)

(* ------------------------- inputs of the storage calls ---------------- *)

\* Partial memories handed to addMemory: as createMemory builds them, and
\* one that already carries an id field.
MemArgs ==
    {createMemory(Text(40, 40), "s", <<1>>, "user"),
     PartialMemory(101, NoTime, Text(40, 40), "s", <<1>>, "user")}

\* JSON texts handed to importMemories: not parseable, parseable without a
\* memories array, and files of 1 and 2 records (one with a repeated id).
ImportTexts ==
    {[kind |-> "garbage", memories |-> JsonArray(<<>>)],
     [kind |-> "nomemories", memories |-> JsonArray(<<>>)]}
    \cup {JSONstringify([memories |-> ms]) :
            ms \in {<<ForeignRecord(101), ForeignRecord(102)>>,
                    <<ForeignRecord(101), ForeignRecord(101)>>}}

\* The text an earlier exportMemories call returned, if there was one: the
\* caller has it (index.js:766-775 downloads it as a file) and can hand it to
\* importMemories.
ExportedTexts == {hist.exported[i] : i \in 1..Len(hist.exported)}

\* Ids a caller can ask deleteMemory to remove.
DeleteIds == {1} \cup ForeignIds

(* ------------------------- addMemory ---------------------------------- *)

\* The invocations of getMemories and of retrieveRelevantMemories for entity
\* e that are in flight.
Retrieving(e) ==
    {q \in Procs : /\ proc[q].op \in {"getMemories", "retrieveRelevantMemories"}
                   /\ proc[q].ent = e
                   /\ proc[q].pc \notin {"idle", "done"}}

StartAddMemory(p) ==
    /\ UNCHANGED <<settings, summarizerClient>>
    /\ Free(p)
    /\ \E e \in DOMAIN cache, m \in MemArgs :
        proc' = [proc EXCEPT ![p] =
                    LoadStart([Call("addMemory") EXCEPT !.mem = m], e, "add_push")]
    /\ calls' = calls + 1
    /\ UNCHANGED <<cache, heap, localStorage, now, nextId, isProcessing, hist>>

\* addMemory after its load (part_000:329-338): build the record, push it on
\* the loaded object, save, return the record whatever saveMemories returned.
AddPush(p) ==
    /\ UNCHANGED <<settings, summarizerClient>>
    /\ NoReturn
    /\ proc[p].pc = "add_push"
    /\ \E ok \in BOOLEAN, t \in Times :
        LET d == proc[p].data
            newMemory == NewMemory(nextId, t, proc[p].mem)
            w == [World EXCEPT !.heap[d].memories = Append(@, newMemory)]
            overlap == Retrieving(proc[p].ent) \ {p}
            h == IF overlap = {} THEN hist
                 ELSE [hist EXCEPT !.add = [overlap |-> overlap,
                                            before |-> heap[d].memories,
                                            after |-> w.heap[d].memories]]
        IN  SaveAndReturnNoting(p, w, ok, t,
                                [tag |-> "memory", value |-> newMemory], h)
    /\ nextId' = nextId + 1
    /\ UNCHANGED <<calls, isProcessing>>

(* ------------------------- deleteMemory ------------------------------- *)

StartDeleteMemory(p) ==
    /\ UNCHANGED <<settings, summarizerClient>>
    /\ Free(p)
    /\ \E e \in Chars, id \in DeleteIds :
        proc' = [proc EXCEPT ![p] =
                    LoadStart([Call("deleteMemory") EXCEPT !.mid = id], e, "del_filter")]
    /\ calls' = calls + 1
    /\ UNCHANGED <<cache, heap, localStorage, now, nextId, isProcessing, hist>>

\* deleteMemory after its load (part_000:360-368).
DeleteFilter(p) ==
    /\ UNCHANGED <<settings, summarizerClient>>
    /\ NoReturn
    /\ proc[p].pc = "del_filter"
    /\ LET d == proc[p].data
           Keep(m) == m.id # proc[p].mid
           kept == SelectSeq(heap[d].memories, Keep)
           w == [World EXCEPT !.heap[d].memories = kept]
       IN  IF Len(kept) < Len(heap[d].memories)
           THEN \E ok \in BOOLEAN, t \in Times :
                   SaveAndReturn(p, w, ok, t, [tag |-> "bool", value |-> TRUE])
           ELSE /\ Commit(w, [proc EXCEPT ![p] =
                                Done(proc[p], [tag |-> "bool", value |-> FALSE])])
                /\ UNCHANGED <<now, hist>>
    /\ UNCHANGED <<nextId, calls, isProcessing>>

(* ------------------------- clearMemories ------------------------------ *)

StartClearMemories(p) ==
    /\ UNCHANGED <<settings, summarizerClient>>
    /\ Free(p)
    /\ \E e \in Chars :
        proc' = [proc EXCEPT ![p] = LoadStart(Call("clearMemories"), e, "clear")]
    /\ calls' = calls + 1
    /\ UNCHANGED <<cache, heap, localStorage, now, nextId, isProcessing, hist>>

\* clearMemories after its load (part_000:378-382).
ClearStep(p) ==
    /\ UNCHANGED <<settings, summarizerClient>>
    /\ NoReturn
    /\ proc[p].pc = "clear"
    /\ \E ok \in BOOLEAN, t \in Times :
        LET w == [World EXCEPT !.heap[proc[p].data].memories = <<>>]
        IN  SaveAndReturn(p, w, ok, t, [tag |-> "bool", value |-> TRUE])
    /\ UNCHANGED <<nextId, calls, isProcessing>>

(* ------------------------- importMemories ----------------------------- *)

\* A format check that lets every text through.
AnyFormat(text) == TRUE

\* The text parses and its memories member is an array (part_000:426-430).
ValidFormat(text) == text.kind = "ok"

\* importMemories up to its first await (part_000:425-432): JSON.parse and
\* the format check throw before anything is loaded.
StartImportMemories(p) ==
    /\ UNCHANGED <<settings, summarizerClient>>
    /\ Free(p)
    /\ \E e \in Chars, text \in ImportTexts \cup ExportedTexts, merge \in BOOLEAN :
        LET loc == [Call("importMemories") EXCEPT !.ent = e]
        IN  IF ~ValidFormat(text)
            THEN proc' = [proc EXCEPT ![p] = Done(loc, [tag |-> "throw"])]
            ELSE proc' = [proc EXCEPT ![p] =
                            LoadStart([loc EXCEPT !.payload = JSONparse(text),
                                                  !.merge = merge], e, "import")]
    /\ calls' = calls + 1
    /\ UNCHANGED <<cache, heap, localStorage, now, nextId, isProcessing, hist>>

\* A merge that appends the whole payload.
ImportedAppendAll(current, incoming, merge) ==
    IF merge THEN current \o incoming ELSE incoming

\* A merge that puts the new records in front of the existing ones.
ImportedInFront(current, incoming, merge) ==
    IF merge
    THEN LET New(m) == m.id \notin Ids(current)
         IN  SelectSeq(incoming, New) \o current
    ELSE incoming

\* The memories sequence an import leaves in the store (part_000:434-442).
Imported(current, incoming, merge) ==
    IF merge
    THEN LET New(m) == m.id \notin Ids(current)
         IN  current \o SelectSeq(incoming, New)
    ELSE incoming

\* importMemories after its load (part_000:434-446).
ImportStep(p) ==
    /\ UNCHANGED <<settings, summarizerClient>>
    /\ NoReturn
    /\ proc[p].pc = "import"
    /\ \E ok \in BOOLEAN, t \in Times :
        LET incoming == proc[p].payload.memories
            current == heap[proc[p].data].memories
            after == Imported(current, incoming, proc[p].merge)
            w == [World EXCEPT !.heap[proc[p].data].memories = after]
            \* the ids of the records of the payload that went into the store
            taken == IF proc[p].merge
                     THEN SubSeq(after, Len(current) + 1, Len(after))
                     ELSE after
            loc == [proc[p] EXCEPT !.saveRet = SaveRet(ok),
                                   !.added = [k \in 1..Len(taken) |-> taken[k].id]]
        IN  /\ Commit(saveMemories(w, proc[p].ent, proc[p].data, ok, t),
                      [proc EXCEPT ![p] =
                          Done(loc, [tag |-> "count", value |-> Len(incoming)])])
            /\ now' = t
            /\ hist' = [hist EXCEPT !.saveFailed = @ \/ ~ok,
                                    !.stale = @ \ {proc[p].data}]
    /\ UNCHANGED <<nextId, calls, isProcessing>>

(* ------------------------- the reading calls -------------------------- *)

ReadOps == {"loadMemories", "getMemories", "getStats", "exportMemories"}

\* A direct loadMemories call, and getMemories, getStats, exportMemories
\* (part_000:346-349, 390-405, 412-415), which load and read.
StartRead(p) ==
    /\ UNCHANGED <<settings, summarizerClient>>
    /\ Free(p)
    /\ \E e \in DOMAIN cache, op \in ReadOps :
        /\ proc' = [proc EXCEPT ![p] = LoadStart(Call(op), e, "read")]
        /\ hist' = [hist EXCEPT !.expect[p] =
                        IF op = "loadMemories" /\ cache[e] = NoObj /\ ~hist.saveFailed
                        THEN localStorage[e] ELSE <<>>]
    /\ calls' = calls + 1
    /\ UNCHANGED <<cache, heap, localStorage, now, nextId, isProcessing>>

\* getStats (part_000:393-404)
getStats(data) ==
    [totalMemories |-> Len(data.memories),
     characterName |-> data.character_name,
     createdAt |-> data.created_at,
     updatedAt |-> data.updated_at,
     oldestMemory |-> IF Len(data.memories) > 0
                      THEN data.memories[1].timestamp ELSE NoTime,
     newestMemory |-> IF Len(data.memories) > 0
                      THEN data.memories[Len(data.memories)].timestamp ELSE NoTime]

ReadResult(op, data) ==
    CASE op = "getMemories" -> [tag |-> "memories", value |-> data.memories]
      [] op = "getStats" -> [tag |-> "stats", value |-> getStats(data)]
      [] op = "exportMemories" -> [tag |-> "json", value |-> JSONstringify(data)]
      [] OTHER -> [tag |-> "store", value |-> data]

ReadStep(p) ==
    /\ UNCHANGED <<settings, summarizerClient>>
    /\ NoReturn
    /\ proc[p].pc = "read"
    /\ Commit(World, [proc EXCEPT ![p] =
                        Done(proc[p], ReadResult(proc[p].op, heap[proc[p].data]))])
    /\ hist' = IF proc[p].op = "exportMemories"
               THEN [hist EXCEPT
                        !.exported = <<JSONstringify(heap[proc[p].data])>>,
                        !.exportedFrom = heap[proc[p].data].memories]
               ELSE hist
    /\ UNCHANGED <<now, nextId, calls, isProcessing>>

\* The caller has taken what a finished call returned: the slot is free.
Return(p) ==
    /\ UNCHANGED <<settings, summarizerClient>>
    /\ proc[p].pc = "done"
    /\ Commit(World, [proc EXCEPT ![p] = IdleProc])
    /\ hist' = [hist EXCEPT !.expect[p] = <<>>,
                            !.add = IF @.overlap \ {p} = {} THEN NoAdd
                                    ELSE [@ EXCEPT !.overlap = @ \ {p}]]
    /\ UNCHANGED <<now, nextId, calls, isProcessing>>

(* ------------------------- cache invalidation ------------------------- *)

\* invalidateCache(characterId) (part_000:464-466)
invalidateCache(e) ==
    /\ UNCHANGED <<settings, summarizerClient>>
    /\ NoReturn
    /\ cache[e] # NoObj
    /\ Commit([World EXCEPT !.cache[e] = NoObj], proc)
    /\ UNCHANGED <<now, nextId, calls, isProcessing, hist>>

\* clearCache() (part_000:456-458)
clearCache ==
    /\ UNCHANGED <<settings, summarizerClient>>
    /\ NoReturn
    /\ \E e \in Chars : cache[e] # NoObj
    /\ Commit([World EXCEPT !.cache = [e \in Chars |-> NoObj]], proc)
    /\ UNCHANGED <<now, nextId, calls, isProcessing, hist>>

(* ------------------------- the remote services ------------------------ *)

\* What the summarizer can answer.
SummaryTexts == {"s1"}
\* What the embedding service can answer for one text.
Vectors == {<<1>>}

\* What a call of a remote client gives: a value, or an exception.
Returned(value) == [threw |-> FALSE, value |-> value]
Threw(none) == [threw |-> TRUE, value |-> none]

\* SummarizerClient.summarize(message) (part_001:156-211), its possible
\* outcomes.  Without URL or key it throws; a blank message gives '' without
\* a request; else the request fails, or answers without content (both
\* throw), or answers a summary, which is trimmed and not empty.
summarize(message) ==
    {Threw("")} \cup
    (IF message.length = 0 \/ message.trimmed = 0
     THEN {Returned("")}
     ELSE {Returned(x) : x \in SummaryTexts})

\* VoyageAIClient.embedDocument(text) (voyageai.js:28-85), its possible
\* outcomes.  embed throws without a key and on a failed request; else the
\* result is the first embedding of the answer, or [] when the answer holds
\* none.  The text is sent whatever it is, '' included.
embedDocument(text) ==
    {Threw(<<>>), Returned(<<>>)} \cup {Returned(v) : v \in Vectors}

\* VoyageAIClient.embedQuery(text) (voyageai.js:28-75, 92-95): as
\* embedDocument, with the other input type.
embedQuery(text) ==
    {Threw(<<>>), Returned(<<>>)} \cup {Returned(v) : v \in Vectors}

\* The input_type of the request embedDocument makes (voyageai.js:83) and
\* of the one embedQuery makes (voyageai.js:93).
documentInputType == "document"
\* A client whose embedQuery asks for document vectors.
swappedInputType == "document"
queryInputType == "query"

(* ------------------------- index.js: the write path ------------------- *)

\* Message texts the host hands over: short, 22 characters of which 18 are
\* left by trim(), 25 blanks, and a long one.
Texts == {Text(5, 5), Text(22, 18), Text(25, 0), Text(40, 40)}

Roles == {"user", "assistant"}

\* A guard that lets every call through.
NeverProcessing == FALSE

\* index.js:495
AlreadyProcessing == isProcessing

\* A guard that finds no text too short.
NeverShort(messageText) == FALSE

\* index.js:500: !messageText || messageText.trim().length < 20
TooShort(messageText) ==
    messageText.length = 0 \/ messageText.trimmed < MinMessageLength

\* index.js:541
SummaryMissing(summary) == summary = ""

\* A check that accepts every vector.
NeverMissing(embedding) == FALSE

\* index.js:549
EmbeddingMissing(embedding) == Len(embedding) = 0

\* The handler is over: what it leaves in its slot until the host has it.
Finish(loc, tag) == [loc EXCEPT !.pc = "done", !.res = [tag |-> tag], !.data = NoObj]

\* processAndStoreMessage up to its first await (index.js:494-532): the two
\* guards, the flag, then either the load of getRecentSummaries or, with
\* include_history off, the call of summarize.
processAndStoreMessage(p, loc, include_history) ==
    IF AlreadyProcessing
    THEN /\ proc' = [proc EXCEPT ![p] = Finish(loc, "skipped_busy")]
         /\ UNCHANGED isProcessing
    ELSE IF TooShort(loc.text)
    THEN /\ proc' = [proc EXCEPT ![p] = Finish(loc, "skipped_short")]
         /\ UNCHANGED isProcessing
    ELSE /\ isProcessing' = TRUE
         /\ proc' = [proc EXCEPT ![p] =
                IF include_history
                THEN LoadStart(loc, loc.ent, "p_history")
                ELSE [loc EXCEPT !.pc = "p_summarize",
                                 !.stages.summarize = "pending"]]

\* A call of processAndStoreMessage with any text and role.
StartProcessAndStoreMessage(p) ==
    /\ UNCHANGED <<settings, summarizerClient>>
    /\ Free(p)
    /\ \E text \in Texts, role \in Roles, e \in Chars, include_history \in BOOLEAN :
        processAndStoreMessage(p, [Call("processAndStoreMessage") EXCEPT
                                      !.text = text, !.role = role, !.ent = e],
                               include_history)
    /\ calls' = calls + 1
    /\ UNCHANGED <<cache, heap, localStorage, now, nextId, hist>>

\* getRecentSummaries has its memories (index.js:428-438, 516-539): the raw
\* history is gathered and summarize is called.
HistoryLoaded(p) ==
    /\ UNCHANGED <<settings, summarizerClient>>
    /\ NoReturn
    /\ proc[p].pc = "p_history"
    /\ Commit(World, [proc EXCEPT ![p].pc = "p_summarize", ![p].data = NoObj,
                                  ![p].stages.summarize = "pending"])
    /\ UNCHANGED <<now, nextId, calls, isProcessing, hist>>

\* One call of toastr.success, toastr.error or toastr.warning.
Toast(loc, kind) == [loc EXCEPT !.toasts[kind] = @ + 1]

\* A catch without the finally block: the flag stays.
FailedKeepsFlag(p, loc) ==
    /\ Commit(World, [proc EXCEPT ![p] = Finish(Toast(loc, "error"), "error")])
    /\ UNCHANGED isProcessing

\* The catch and finally of processAndStoreMessage (index.js:566-572): the
\* error toast, the flag.
Failed(p, loc) ==
    /\ Commit(World, [proc EXCEPT ![p] = Finish(Toast(loc, "error"), "error")])
    /\ isProcessing' = FALSE

\* summarize has returned or thrown (index.js:532-547).
SummarizeReturn(p) ==
    /\ UNCHANGED <<settings, summarizerClient>>
    /\ NoReturn
    /\ proc[p].pc = "p_summarize"
    /\ \E r \in summarize(proc[p].text) :
        IF r.threw
        THEN Failed(p, [proc[p] EXCEPT !.stages.summarize = "threw"])
        ELSE LET loc == [proc[p] EXCEPT !.stages.summarize = "returned",
                                        !.summary = r.value]
             IN  IF SummaryMissing(r.value)
                 THEN Failed(p, loc)
                 ELSE /\ Commit(World, [proc EXCEPT ![p] =
                            [loc EXCEPT !.pc = "p_embed", !.stages.embed = "pending",
                                        !.inputType = documentInputType]])
                      /\ UNCHANGED isProcessing
    /\ UNCHANGED <<now, nextId, calls, hist>>

\* embedDocument has returned or thrown (index.js:547-560): the memory is
\* made and addMemory called, which runs up to its load.
EmbedReturn(p) ==
    /\ UNCHANGED <<settings, summarizerClient>>
    /\ NoReturn
    /\ proc[p].pc = "p_embed"
    /\ \E r \in embedDocument(proc[p].summary) :
        IF r.threw
        THEN Failed(p, [proc[p] EXCEPT !.stages.embed = "threw", !.inputType = ""])
        ELSE LET loc == [proc[p] EXCEPT !.stages.embed = "returned",
                                        !.embedding = r.value, !.inputType = ""]
             IN  IF EmbeddingMissing(r.value)
                 THEN Failed(p, loc)
                 ELSE /\ Commit(World, [proc EXCEPT ![p] =
                            LoadStart([loc EXCEPT
                                !.mem = createMemory(loc.text, loc.summary, r.value, loc.role),
                                !.ret = "p_stored", !.stages.store = "pending"],
                                loc.ent, "add_push")])
                      /\ UNCHANGED isProcessing
    /\ UNCHANGED <<now, nextId, calls, hist>>

\* addMemory has returned (index.js:560-563): updateMemoryStats is called,
\* which runs up to the load of getStats.
Stored(p) ==
    /\ UNCHANGED <<settings, summarizerClient>>
    /\ NoReturn
    /\ proc[p].pc = "p_stored"
    /\ Commit(World, [proc EXCEPT ![p] =
            LoadStart([proc[p] EXCEPT !.stages.store = "returned", !.res = NoRes,
                                      !.added = Append(@, proc[p].res.value.id)],
                      proc[p].ent, "p_stats")])
    /\ UNCHANGED <<now, nextId, calls, isProcessing, hist>>

\* updateMemoryStats has returned (index.js:563-572): the success toast, then
\* the finally block.
StatsShown(p) ==
    /\ UNCHANGED <<settings, summarizerClient>>
    /\ NoReturn
    /\ proc[p].pc = "p_stats"
    /\ Commit(World, [proc EXCEPT ![p] =
                        Finish(Toast(proc[p], "success"), "stored")])
    /\ isProcessing' = FALSE
    /\ UNCHANGED <<now, nextId, calls, hist>>

(* ------------------------- index.js: storeCurrentChat ----------------- *)

Message(mes, is_user, is_system) ==
    [mes |-> mes, is_user |-> is_user, is_system |-> is_system]

\* Messages a chat of the host can hold: a long one of the user, a short
\* one, one of blanks only, and a system message.
ChatMessages ==
    {Message(Text(40, 40), TRUE, FALSE), Message(Text(5, 5), TRUE, FALSE),
     Message(Text(25, 0), FALSE, FALSE), Message(Text(40, 40), FALSE, TRUE)}

RECURSIVE SeqsUpTo(_, _)
SeqsUpTo(S, n) ==
    IF n = 0 THEN {<<>>}
    ELSE LET shorter == SeqsUpTo(S, n - 1)
         IN  shorter \cup {Append(q, x) : q \in shorter, x \in S}

Chats == SeqsUpTo(ChatMessages, MaxChat)

\* index.js:684: !m.is_system && m.mes && m.mes.length >= 20
Eligible(m) ==
    ~m.is_system /\ m.mes.length # 0 /\ m.mes.length >= MinMessageLength

\* The loop of storeCurrentChat takes up the first message of the queue
\* (index.js:698-708): summarize is called; with no message left the loop is
\* over and updateMemoryStats is called (index.js:730-731).
NextUnit(loc, queue) ==
    IF queue = <<>>
    THEN LoadStart([loc EXCEPT !.queue = <<>>, !.stages = NoStages, !.text = NoText,
                               !.summary = "", !.embedding = <<>>, !.data = NoObj],
                   loc.ent, "b_stats")
    ELSE [loc EXCEPT !.queue = queue, !.text = queue[1].mes,
                     !.role = IF queue[1].is_user THEN "user" ELSE "assistant",
                     !.summary = "", !.embedding = <<>>, !.data = NoObj,
                     !.stages = [NoStages EXCEPT !.summarize = "pending"],
                     !.pc = "b_summarize"]

\* storeCurrentChat up to its first await (index.js:676-708).
StartStoreCurrentChat(p) ==
    /\ UNCHANGED <<settings, summarizerClient>>
    /\ Free(p)
    /\ hist.batches < MaxBatches
    /\ \E chat \in Chats, e \in Chars, confirmed \in BOOLEAN :
        LET messages == SelectSeq(chat, Eligible)
            loc == [Call("storeCurrentChat") EXCEPT !.ent = e,
                                                    !.eligible = Len(messages)]
        IN  proc' = [proc EXCEPT ![p] =
                IF messages = <<>> THEN Finish(loc, "nothing_to_store")
                ELSE IF ~confirmed THEN Finish(loc, "cancelled")
                ELSE NextUnit(loc, messages)]
    /\ calls' = calls + 1
    /\ hist' = [hist EXCEPT !.batches = @ + 1]
    /\ UNCHANGED <<cache, heap, localStorage, now, nextId, isProcessing>>

\* The catch of the loop (index.js:724-727), and on to the next message.
UnitFailed(loc) ==
    NextUnit([loc EXCEPT !.failed = @ + 1], Tail(loc.queue))

\* summarize has returned or thrown (index.js:705-711): embedDocument is
\* called with whatever summarize returned.
BatchSummarizeReturn(p) ==
    /\ UNCHANGED <<settings, summarizerClient>>
    /\ NoReturn
    /\ proc[p].pc = "b_summarize"
    /\ \E r \in summarize(proc[p].text) :
        Commit(World, [proc EXCEPT ![p] =
            IF r.threw
            THEN UnitFailed([proc[p] EXCEPT !.stages.summarize = "threw"])
            ELSE [proc[p] EXCEPT !.stages.summarize = "returned",
                                 !.summary = r.value,
                                 !.inputType = documentInputType,
                                 !.stages.embed = "pending", !.pc = "b_embed"]])
    /\ UNCHANGED <<now, nextId, calls, isProcessing, hist>>

\* embedDocument has returned or thrown (index.js:711-719): the memory is
\* made of whatever it returned and addMemory is called.
BatchEmbedReturn(p) ==
    /\ UNCHANGED <<settings, summarizerClient>>
    /\ NoReturn
    /\ proc[p].pc = "b_embed"
    /\ \E r \in embedDocument(proc[p].summary) :
        Commit(World, [proc EXCEPT ![p] =
            IF r.threw
            THEN UnitFailed([proc[p] EXCEPT !.stages.embed = "threw",
                                            !.inputType = ""])
            ELSE LoadStart([proc[p] EXCEPT
                    !.stages.embed = "returned", !.embedding = r.value,
                    !.inputType = "",
                    !.mem = createMemory(proc[p].text, proc[p].summary, r.value,
                                         proc[p].role),
                    !.ret = "b_stored", !.stages.store = "pending"],
                    proc[p].ent, "add_push")])
    /\ UNCHANGED <<now, nextId, calls, isProcessing, hist>>

\* addMemory has returned (index.js:719-723): the count, then the delay.
BatchStored(p) ==
    /\ UNCHANGED <<settings, summarizerClient>>
    /\ NoReturn
    /\ proc[p].pc = "b_stored"
    /\ Commit(World, [proc EXCEPT ![p].stages.store = "returned",
                                  ![p].res = NoRes,
                                  ![p].added = Append(@, proc[p].res.value.id),
                                  ![p].processed = @ + 1,
                                  ![p].pc = "b_delay"])
    /\ UNCHANGED <<now, nextId, calls, isProcessing, hist>>

\* The delay is over: the next message.
BatchDelay(p) ==
    /\ UNCHANGED <<settings, summarizerClient>>
    /\ NoReturn
    /\ proc[p].pc = "b_delay"
    /\ Commit(World, [proc EXCEPT ![p] = NextUnit(proc[p], Tail(proc[p].queue))])
    /\ UNCHANGED <<now, nextId, calls, isProcessing, hist>>

\* updateMemoryStats has returned (index.js:731-733): the final toast.
BatchStatsShown(p) ==
    /\ UNCHANGED <<settings, summarizerClient>>
    /\ NoReturn
    /\ proc[p].pc = "b_stats"
    /\ Commit(World, [proc EXCEPT ![p] = Finish(proc[p], "batch_done")])
    /\ UNCHANGED <<now, nextId, calls, isProcessing, hist>>

(* ------------------------- the storage specification ------------------ *)

\* Nothing has happened yet.
NoHist ==
    [saveFailed |-> FALSE, batches |-> 0, expect |-> [p \in Procs |-> <<>>],
     exported |-> <<>>, exportedFrom |-> <<>>, changes |-> 0, stale |-> {},
     fetchFailed |-> FALSE, add |-> NoAdd]

Init ==
    /\ DefaultExtension
    /\ cache = [e \in Chars |-> NoObj]
    /\ heap = [i \in ObjIds |-> NilStore]
    /\ localStorage = [e \in Chars |-> <<>>]
    /\ now = 0
    /\ nextId = 1
    /\ proc = [p \in Procs |-> IdleProc]
    /\ calls = 0
    /\ isProcessing = FALSE
    /\ hist = NoHist

StorageStep(p) ==
    \/ FetchReturn(p)
    \/ AddPush(p)
    \/ DeleteFilter(p)
    \/ ClearStep(p)
    \/ ImportStep(p)
    \/ ReadStep(p)
    \/ Return(p)

NextStorage ==
    \/ \E p \in Procs :
        \/ StartAddMemory(p)
        \/ StartDeleteMemory(p)
        \/ StartClearMemories(p)
        \/ StartImportMemories(p)
        \/ StartRead(p)
        \/ StorageStep(p)
    \/ \E e \in Chars : invalidateCache(e)
    \/ clearCache

SpecStorage == Init /\ [][NextStorage]_vars

(* ------------------------- the write-path specification --------------- *)

\* The host's events reach processAndStoreMessage; the user's click reaches
\* storeCurrentChat; the calls they make into MemoryStorage run as above.
NextPipeline ==
    \E p \in Procs :
        \/ StartProcessAndStoreMessage(p)
        \/ HistoryLoaded(p)
        \/ SummarizeReturn(p)
        \/ EmbedReturn(p)
        \/ Stored(p)
        \/ StatsShown(p)
        \/ StartStoreCurrentChat(p)
        \/ BatchSummarizeReturn(p)
        \/ BatchEmbedReturn(p)
        \/ BatchStored(p)
        \/ BatchDelay(p)
        \/ BatchStatsShown(p)
        \/ FetchReturn(p)
        \/ AddPush(p)
        \/ Return(p)

SpecPipeline == Init /\ [][NextPipeline]_vars

(* ------------------------- lib/similarity.js ------------------------- *)

\* Similarities and thresholds are counted in hundredths: 96 is 0.96.
Hundred == 100

\* The embeddings of the model: four vectors of norm 5, so that every
\* cosine among them is a whole number of hundredths (the last one is
\* orthogonal to the query <<3, 4>>), the zero vector, a vector of another
\* dimension, and no embedding at all.
UnitVectors == {<<3, 4>>, <<4, 3>>, <<5, 0>>, <<-4, 3>>}
EmbeddingValues == UnitVectors \cup {<<0, 0>>, <<5>>, <<>>}

\* An argument that can be missing (null, undefined) is <<>> when missing
\* and <<value>> when given.
Missing == <<>>
Given(value) == <<value>>

RECURSIVE Dot(_, _)
Dot(vecA, vecB) ==
    IF Len(vecA) = 0 THEN 0
    ELSE Head(vecA) * Head(vecB) + Dot(Tail(vecA), Tail(vecB))

\* Math.sqrt on the squared norms of the model's vectors, all of them
\* squares.
Sqrt(n) == CHOOSE r \in 0..n : r * r = n

\* cosineSimilarity(vecA, vecB) (part_000:501-525), in hundredths
cosineSimilarity(vecA, vecB) ==
    IF vecA = Missing \/ vecB = Missing \/ Len(vecA[1]) # Len(vecB[1])
    THEN 0
    ELSE LET dotProduct == Dot(vecA[1], vecB[1])
             normA == Sqrt(Dot(vecA[1], vecA[1]))
             normB == Sqrt(Dot(vecB[1], vecB[1]))
         IN  IF normA = 0 \/ normB = 0
             THEN 0
             ELSE (dotProduct * Hundred) \div (normA * normB)

\* memory => memory.embedding && memory.embedding.length > 0 (part_000:542)
HasEmbedding(memory) == Len(memory.embedding) > 0

\* A threshold filter that keeps every item.
KeepAll(item, threshold) == TRUE

\* item => item.similarity >= threshold (part_000:547)
AboveThreshold(item, threshold) == item.similarity >= threshold

\* An insertion that puts an item before the items of equal similarity.
RECURSIVE InsertBeforeEqual(_, _)
InsertBeforeEqual(sorted, item) ==
    IF sorted = <<>> THEN <<item>>
    ELSE IF Head(sorted).similarity > item.similarity
         THEN <<Head(sorted)>> \o InsertBeforeEqual(Tail(sorted), item)
         ELSE <<item>> \o sorted

\* Where a stable sort by (a, b) => b.similarity - a.similarity puts an
\* item that comes after all the items of sorted in the input: behind every
\* item whose similarity is not smaller.
RECURSIVE InsertStable(_, _)
InsertStable(sorted, item) ==
    IF sorted = <<>> THEN <<item>>
    ELSE IF Head(sorted).similarity >= item.similarity
         THEN <<Head(sorted)>> \o InsertStable(Tail(sorted), item)
         ELSE <<item>> \o sorted

\* .sort((a, b) => b.similarity - a.similarity) (part_000:548);
\* Array.prototype.sort is stable.
RECURSIVE SortBySimilarity(_)
SortBySimilarity(items) ==
    IF items = <<>> THEN <<>>
    ELSE InsertStable(SortBySimilarity(SubSeq(items, 1, Len(items) - 1)),
                      items[Len(items)])

\* .slice(0, topK) (part_000:549)
Slice(items, topK) ==
    SubSeq(items, 1, IF topK < Len(items) THEN topK ELSE Len(items))

\* findTopKSimilar(queryEmbedding, memories, topK, threshold)
\* (part_000:535-552).  An empty array is not falsy: only a missing query
\* and a missing or empty collection return [] at once.
findTopKSimilar(queryEmbedding, memories, topK, threshold) ==
    IF queryEmbedding = Missing \/ memories = Missing \/ Len(memories[1]) = 0
    THEN <<>>
    ELSE LET withEmbedding == SelectSeq(memories[1], HasEmbedding)
             scored == [i \in 1..Len(withEmbedding) |->
                          [memory |-> withEmbedding[i],
                           similarity |-> cosineSimilarity(queryEmbedding,
                                              Given(withEmbedding[i].embedding))]]
             Passes(item) == AboveThreshold(item, threshold)
         IN  Slice(SortBySimilarity(SelectSeq(scored, Passes)), topK)

\* The memory collections handed over: records 1, 2, ... in insertion order,
\* with any of the embeddings.
MemoryLists ==
    {[i \in 1..Len(embs) |-> [ForeignRecord(i) EXCEPT !.embedding = embs[i]]] :
        embs \in SeqsUpTo(EmbeddingValues, MaxMemories)}

QueryArgs == {Missing} \cup {Given(v) : v \in {<<>>, <<3, 4>>, <<0, 0>>}}
MemoriesArgs == {Missing} \cup {Given(ms) : ms \in MemoryLists}
TopKs == 0..MaxTopK
Thresholds == {0, 70, 96}

\* A call of findTopKSimilar with its arguments, about to run.
InitSimilarity ==
    /\ DefaultExtension
    /\ cache = [e \in Chars |-> NoObj]
    /\ heap = [i \in ObjIds |-> NilStore]
    /\ localStorage = [e \in Chars |-> <<>>]
    /\ now = 0
    /\ nextId = 1
    /\ calls = 1
    /\ isProcessing = FALSE
    /\ hist = NoHist
    /\ \E q \in QueryArgs, ms \in MemoriesArgs, k \in TopKs, th \in Thresholds :
        proc = [p \in Procs |->
                  IF p = 1
                  THEN [Call("findTopKSimilar") EXCEPT
                            !.pc = "topk",
                            !.args = [queryEmbedding |-> q, memories |-> ms,
                                      topK |-> k, threshold |-> th]]
                  ELSE IdleProc]

\* The call runs (it has no await) and returns.
FindTopKSimilar(p) ==
    /\ UNCHANGED <<settings, summarizerClient>>
    /\ proc[p].pc = "topk"
    /\ LET a == proc[p].args
       IN  proc' = [proc EXCEPT ![p].pc = "returned",
                                ![p].res = [tag |-> "results",
                                            value |-> findTopKSimilar(
                                                a.queryEmbedding, a.memories,
                                                a.topK, a.threshold)]]
    /\ UNCHANGED <<cache, heap, localStorage, now, nextId, calls, isProcessing, hist>>

NextSimilarity == \E p \in Procs : FindTopKSimilar(p)

SpecSimilarity == InitSimilarity /\ [][NextSimilarity]_vars

(* ------------------------- lib/voyageai.js ---------------------------- *)

\* Texts are numbered; the vector the service computes for a text tells
\* which text it was.
TextIds == {1, 2, 3}
EmbeddingOf(text) == <<text>>

\* HTTP statuses of a refused request, and of an answered one.
ErrorStatuses == {401, 500}
OkStatus == 200

\* The orders in which the service can list the items of its answer; on 3
\* items these are all 6 permutations.
Orders == {"asis", "reversed", "rotated", "rotatedback", "swapfirst", "swaplast"}

Reverse(items) == [k \in 1..Len(items) |-> items[Len(items) + 1 - k]]

Permute(order, items) ==
    LET n == Len(items)
    IN  CASE order = "reversed" -> Reverse(items)
          [] order = "rotated" /\ n > 0 -> Append(Tail(items), items[1])
          [] order = "rotatedback" /\ n > 0 ->
                <<items[n]>> \o SubSeq(items, 1, n - 1)
          [] order = "swapfirst" /\ n > 1 ->
                <<items[2], items[1]>> \o SubSeq(items, 3, n)
          [] order = "swaplast" /\ n > 1 ->
                SubSeq(items, 1, n - 2) \o <<items[n], items[n - 1]>>
          [] OTHER -> items

\* data.data of the answer to a request for texts: one item for each text,
\* with the index of the text in the request, listed in the given order.
ServiceData(texts, order) ==
    Permute(order, [k \in 1..Len(texts) |->
                        [index |-> k - 1, embedding |-> EmbeddingOf(texts[k])]])

\* An answer taken in the order it comes.
KeepOrder(items) == items

\* data.data.sort((a, b) => a.index - b.index) (voyageai.js:63-64): the
\* stable sort by ascending index.
SortByIndex(items) ==
    LET n == Len(items)
        Before(i, j) ==
            \/ items[i].index < items[j].index
            \/ items[i].index = items[j].index /\ i < j
        Place(j) == Cardinality({i \in 1..n : Before(i, j)}) + 1
    IN  [k \in 1..n |-> items[CHOOSE j \in 1..n : Place(j) = k]]

\* .map(item => item.embedding) (voyageai.js:65)
EmbeddingsOf(items) == [k \in 1..Len(items) |-> items[k].embedding]

\* Array.isArray(input) ? input : [input] (voyageai.js:33)
TextsOf(input) == IF input.isArray THEN input.items ELSE <<input.items[1]>>

\* texts.slice(i, i + BATCH_SIZE) (voyageai.js:112)
Batch(texts, i) ==
    SubSeq(texts, i + 1, IF i + BATCH_SIZE < Len(texts) THEN i + BATCH_SIZE
                         ELSE Len(texts))

\* A client that takes any key for a key.
AnyKey(apiKey) == TRUE

\* voyageai.js:29
HasKey(apiKey) == apiKey # ""

ConfigError == [tag |-> "threw", error |-> "VoyageAI API key is not configured",
                status |-> 0]
\* voyageai.js:55-57: the message starts with the status of the response.
ApiError(status) == [tag |-> "threw", error |-> "VoyageAI API error", status |-> status]
\* fetch itself failed: its error is thrown on (voyageai.js:71-74).
NetworkError == [tag |-> "threw", error |-> "fetch failed", status |-> 0]

EmbedResult(embeddings, total_tokens) ==
    [tag |-> "result", embeddings |-> embeddings, total_tokens |-> total_tokens]

\* The invocation returns or throws res.
Ended(loc, res) == [loc EXCEPT !.pc = "returned", !.res = res]

\* embed(texts, inputType) up to its fetch (voyageai.js:28-51), called by
\* the method of loc: it throws without a key, returns the empty result for
\* no texts, else sends the request and waits.  embedDocuments returns the
\* embeddings alone (voyageai.js:117).
embed(loc, texts, inputType) ==
    IF ~HasKey(loc.call.apiKey) THEN Ended(loc, ConfigError)
    ELSE IF Len(texts) = 0
    THEN Ended(loc, IF loc.call.method = "embedDocuments"
                    THEN [tag |-> "embeddings", value |-> loc.call.allEmbeddings]
                    ELSE EmbedResult(<<>>, 0))
    ELSE [loc EXCEPT !.pc = "e_fetch", !.inputType = inputType,
                     !.call.requests = Append(@, texts)]

\* Inputs of the embedding client: every list of up to MaxTexts texts, one
\* list of BATCH_SIZE + 1 texts, and single texts.
EmbedInputs ==
    {[isArray |-> TRUE, items |-> items] : items \in SeqsUpTo(TextIds, MaxTexts)}
    \cup {[isArray |-> TRUE, items |-> [k \in 1..(BATCH_SIZE + 1) |-> k]]}
    \cup {[isArray |-> FALSE, items |-> <<t>>] : t \in TextIds}

ApiKeys == {"", "key"}

\* A call of embed or embedDocuments has been made with some input on a
\* client with or without a key.
InitEmbed ==
    /\ DefaultExtension
    /\ cache = [e \in Chars |-> NoObj]
    /\ heap = [i \in ObjIds |-> NilStore]
    /\ localStorage = [e \in Chars |-> <<>>]
    /\ now = 0
    /\ nextId = 1
    /\ calls = 1
    /\ isProcessing = FALSE
    /\ hist = NoHist
    /\ \E method \in {"embed", "embedDocuments"}, apiKey \in ApiKeys,
          input \in EmbedInputs, inputType \in {documentInputType, queryInputType} :
        /\ method = "embedDocuments" => input.isArray /\ inputType = documentInputType
        /\ proc = [p \in Procs |->
                    IF p = 1
                    THEN [Call(method) EXCEPT !.pc = "e_called",
                                              !.inputType = inputType,
                                              !.call.method = method,
                                              !.call.apiKey = apiKey,
                                              !.call.input = input]
                    ELSE IdleProc]

\* The call runs up to its first await: embed as above; embedDocuments
\* (voyageai.js:102-113) returns [] for no texts, else calls embed for its
\* first batch.
Embed(p) ==
    /\ UNCHANGED <<settings, summarizerClient>>
    /\ proc[p].pc = "e_called"
    /\ proc' = [proc EXCEPT ![p] =
            IF proc[p].call.method = "embed"
            THEN embed(proc[p], TextsOf(proc[p].call.input), proc[p].inputType)
            ELSE IF Len(proc[p].call.input.items) = 0
            THEN Ended(proc[p], [tag |-> "embeddings", value |-> <<>>])
            ELSE embed(proc[p], Batch(proc[p].call.input.items, 0), documentInputType)]
    /\ UNCHANGED <<cache, heap, localStorage, now, nextId, calls, isProcessing, hist>>

\* The fetch is over (voyageai.js:53-70, 113-117): a failed fetch and a
\* refused request throw; else the embeddings are taken from the sorted
\* answer.  embed returns them; embedDocuments adds them to allEmbeddings and
\* goes on with the next batch, or returns allEmbeddings after the last one.
EmbedFetched(p) ==
    /\ UNCHANGED <<settings, summarizerClient>>
    /\ proc[p].pc = "e_fetch"
    /\ LET loc == proc[p]
           sent == loc.call.requests[Len(loc.call.requests)]
       IN  \/ proc' = [proc EXCEPT ![p] = Ended(loc, NetworkError)]
           \/ \E status \in ErrorStatuses :
                proc' = [proc EXCEPT ![p] =
                            Ended([loc EXCEPT !.call.status = status],
                                  ApiError(status))]
           \/ \E order \in Orders :
                LET embeddings == EmbeddingsOf(SortByIndex(ServiceData(sent, order)))
                    all == loc.call.allEmbeddings \o embeddings
                    i == loc.call.i + BATCH_SIZE
                    answered == [loc EXCEPT !.call.status = OkStatus]
                    more == [answered EXCEPT !.call.allEmbeddings = all, !.call.i = i]
                IN  proc' = [proc EXCEPT ![p] =
                        IF loc.call.method = "embed"
                        THEN Ended(answered, EmbedResult(embeddings, Len(sent)))
                        ELSE IF i < Len(loc.call.input.items)
                        THEN embed(more, Batch(loc.call.input.items, i),
                                   documentInputType)
                        ELSE Ended(more, [tag |-> "embeddings", value |-> all])]
    /\ UNCHANGED <<cache, heap, localStorage, now, nextId, calls, isProcessing, hist>>

NextEmbed == \E p \in Procs : Embed(p) \/ EmbedFetched(p)

SpecEmbed == InitEmbed /\ [][NextEmbed]_vars

(* ------------------------- index.js: the read path -------------------- *)

\* context.characterId when no character is selected.
NoCharacter == ""

\* The text of the last user message, the query.
QueryTexts == {Text(40, 40)}

\* settings.top_k and settings.similarity_threshold (hundredths).
TopKSettings == {1, 2}
ThresholdSettings == {0, 70}

\* formatMemoriesForInjection(memories) (index.js:620-632): one line for
\* each result, with role, summary and score.
formatMemoriesForInjection(memories) ==
    [k \in 1..Len(memories) |->
        [role |-> memories[k].memory.role, summary |-> memories[k].memory.summary,
         relevance |-> memories[k].similarity]]

\* onBeforePromptGeneration after retrieveRelevantMemories has returned
\* (index.js:388-413): with at least one memory, and extensionPrompts in the
\* data of the event, one entry is pushed.  Position and depth of the entry
\* are left out.
Injected(loc, relevantMemories) ==
    IF /\ loc.op = "onBeforePromptGeneration"
       /\ Len(relevantMemories) > 0
       /\ loc.extensionPrompts # Missing
    THEN [loc EXCEPT !.extensionPrompts =
            Given(Append(@[1],
                [identifier |-> "voyageai_memories",
                 content |-> formatMemoriesForInjection(relevantMemories)]))]
    ELSE loc

\* retrieveRelevantMemories returns value (index.js:583, 591, 597, 608); when
\* onBeforePromptGeneration made the call, it goes on at once.
Results(loc, value) ==
    Injected([loc EXCEPT !.pc = "done", !.res = [tag |-> "results", value |-> value],
                         !.data = NoObj, !.inputType = ""],
             value)

\* A handler without the catch: the error reaches the caller.
Rethrown(loc) ==
    [loc EXCEPT !.pc = "done", !.res = [tag |-> "threw"], !.data = NoObj,
                !.inputType = ""]

\* The catch of retrieveRelevantMemories (index.js:609-612).
Caught(loc) == Results(loc, <<>>)

\* retrieveRelevantMemories up to its first await (index.js:580-588): without
\* a character it returns [], else embedQuery is called.
StartRetrieveRelevantMemories(p) ==
    /\ UNCHANGED <<settings, summarizerClient>>
    /\ Free(p)
    /\ \E queryText \in QueryTexts, characterId \in DOMAIN cache \cup {NoCharacter},
          top_k \in TopKSettings, similarity_threshold \in ThresholdSettings :
        LET loc == [Call("retrieveRelevantMemories") EXCEPT
                        !.text = queryText, !.ent = characterId,
                        !.args.topK = top_k,
                        !.args.threshold = similarity_threshold]
        IN  proc' = [proc EXCEPT ![p] =
                IF characterId = NoCharacter
                THEN Results(loc, <<>>)
                ELSE [loc EXCEPT !.pc = "r_embed", !.stages.embed = "pending",
                                 !.inputType = queryInputType]]
    /\ calls' = calls + 1
    /\ UNCHANGED <<cache, heap, localStorage, now, nextId, isProcessing, hist>>

\* embedQuery has returned or thrown (index.js:588-595): an exception is
\* caught, an empty vector returns [], else getMemories is called, which runs
\* up to its load.
EmbedQueryReturn(p) ==
    /\ UNCHANGED <<settings, summarizerClient>>
    /\ NoReturn
    /\ proc[p].pc = "r_embed"
    /\ \E r \in embedQuery(proc[p].text) :
        Commit(World, [proc EXCEPT ![p] =
            IF r.threw
            THEN Caught([proc[p] EXCEPT !.stages.embed = "threw"])
            ELSE LET loc == [proc[p] EXCEPT !.stages.embed = "returned",
                                            !.embedding = r.value,
                                            !.inputType = ""]
                 IN  IF Len(r.value) = 0
                     THEN Results(loc, <<>>)
                     ELSE LoadStart([loc EXCEPT !.args.queryEmbedding = Given(r.value)],
                                    loc.ent, "r_loaded")])
    /\ UNCHANGED <<now, nextId, calls, isProcessing, hist>>

\* getMemories has returned (index.js:595-608): [] for an empty store, else
\* what findTopKSimilar returns.
RetrieveLoaded(p) ==
    /\ UNCHANGED <<settings, summarizerClient>>
    /\ NoReturn
    /\ proc[p].pc = "r_loaded"
    /\ LET memories == heap[proc[p].data].memories
           loc == [proc[p] EXCEPT !.args.memories = Given(memories)]
       IN  Commit(World, [proc EXCEPT ![p] =
               IF Len(memories) = 0
               THEN Results(loc, <<>>)
               ELSE Results(loc, findTopKSimilar(loc.args.queryEmbedding,
                                                 Given(memories), loc.args.topK,
                                                 loc.args.threshold))])
    /\ UNCHANGED <<now, nextId, calls, isProcessing, hist>>

(* ------------------------- index.js: onChatChanged ------------------- *)

\* onChatChanged up to its first await (index.js:357-363), with
\* context.characterId = e: the cache entry of e is dropped, and
\* updateMemoryStats runs up to the load of getStats (index.js:942-953),
\* which misses the cache and starts its fetch.  The entries that are in the
\* cache from before the change are noted in stale.
onChatChanged(p) ==
    /\ UNCHANGED <<settings, summarizerClient>>
    /\ FreeSlot(p)
    /\ hist.changes < MaxChanges
    /\ \E e \in DOMAIN cache :
        LET w == [World EXCEPT !.cache[e] = NoObj]
        IN  /\ Commit(w, [proc EXCEPT ![p] =
                    [Call("onChatChanged") EXCEPT !.ent = e, !.data = NoObj,
                                                  !.pc = "fetch", !.after = "c_stats"]])
            /\ hist' = [hist EXCEPT !.changes = @ + 1,
                                    !.stale = {w.cache[x] : x \in DOMAIN cache} \ {NoObj}]
    /\ UNCHANGED <<now, nextId, calls, isProcessing>>

\* getStats has returned (index.js:953-961, 364): the numbers are shown and
\* the handler is over.
ChatChangedStats(p) ==
    /\ UNCHANGED <<settings, summarizerClient>>
    /\ NoReturn
    /\ proc[p].pc = "c_stats"
    /\ Commit(World, [proc EXCEPT ![p] = Finish(proc[p], "changed")])
    /\ UNCHANGED <<now, nextId, calls, isProcessing, hist>>

\* The storage is new, and the host knows two characters.
InitSwitch ==
    /\ DefaultExtension
    /\ cache = [e \in Entities |-> NoObj]
    /\ heap = [i \in 1..(Cardinality(Procs) + Cardinality(Entities)) |-> NilStore]
    /\ localStorage = [e \in Entities |-> <<>>]
    /\ now = 0
    /\ nextId = 1
    /\ proc = [p \in Procs |-> IdleProc]
    /\ calls = 0
    /\ isProcessing = FALSE
    /\ hist = NoHist

\* Loads and adds for either character, next to a change of the chat.
NextSwitch ==
    \E p \in Procs :
        \/ onChatChanged(p)
        \/ ChatChangedStats(p)
        \/ StartRead(p)
        \/ StartAddMemory(p)
        \/ ReadStep(p)
        \/ FetchReturn(p)
        \/ AddPush(p)
        \/ Return(p)

SpecSwitch == InitSwitch /\ [][NextSwitch]_vars

(* ------------------------- the read-path specification ---------------- *)

\* Retrievals next to the writes of processAndStoreMessage and to direct
\* calls of the storage.
NextRetrieval ==
    \E p \in Procs :
        \/ StartRetrieveRelevantMemories(p)
        \/ EmbedQueryReturn(p)
        \/ RetrieveLoaded(p)
        \/ StartProcessAndStoreMessage(p)
        \/ HistoryLoaded(p)
        \/ SummarizeReturn(p)
        \/ EmbedReturn(p)
        \/ Stored(p)
        \/ StatsShown(p)
        \/ StartAddMemory(p)
        \/ StartRead(p)
        \/ ReadStep(p)
        \/ FetchReturn(p)
        \/ AddPush(p)
        \/ Return(p)

SpecRetrieval == Init /\ [][NextRetrieval]_vars

\* Both write paths next to retrievals: every handler that asks the
\* embedding service for a vector.
NextRequests ==
    \/ NextPipeline
    \/ \E p \in Procs :
        \/ StartRetrieveRelevantMemories(p)
        \/ EmbedQueryReturn(p)
        \/ RetrieveLoaded(p)

SpecRequests == Init /\ [][NextRequests]_vars

(* ------------------------- properties: the write path ----------------- *)

WriteOps == {"processAndStoreMessage", "storeCurrentChat"}

\* An invocation is inside a summarize -> embed -> store unit: one of the
\* three stage calls has been made and is awaited.
UnitInFlight(p) ==
    /\ proc[p].op \in WriteOps
    /\ proc[p].pc # "done"
    /\ \/ proc[p].stages.summarize = "pending"
       \/ proc[p].stages.embed = "pending"
       \/ proc[p].stages.store = "pending"

\* C1: at every moment at most one write-path pipeline execution
\* (summarize -> embed -> store) is in progress, whichever of
\* processAndStoreMessage and storeCurrentChat started it.
C1_SingleFlight ==
    \A p, q \in Procs : UnitInFlight(p) /\ UnitInFlight(q) => p = q

Complete(m) == m.summary # "" /\ Len(m.embedding) > 0

\* C2: every record in a store has a non-empty summary and a non-empty
\* embedding, so a message whose summary or embedding came back empty has
\* left no record.
C2_NoPartialRecord ==
    \A i \in ObjIds : \A k \in 1..Len(heap[i].memories) :
        Complete(heap[i].memories[k])

\* C7: within one processAndStoreMessage invocation the stages run in the
\* order summarize, embed, store: embedDocument is called only after
\* summarize returned a non-empty summary, addMemory only after
\* embedDocument returned a non-empty vector, and after a stage failed no
\* later stage is called.
C7_StagesInOrder ==
    \A p \in Procs :
        proc[p].op = "processAndStoreMessage" =>
            LET st == proc[p].stages
            IN  /\ st.embed # "none" =>
                    st.summarize = "returned" /\ proc[p].summary # ""
                /\ st.store # "none" =>
                    st.embed = "returned" /\ Len(proc[p].embedding) > 0
                /\ st.summarize \in {"none", "pending", "threw"} =>
                    st.embed = "none" /\ st.store = "none"
                /\ st.embed \in {"none", "pending", "threw"} => st.store = "none"
                /\ proc[p].pc \in {"fetch", "add_push"} /\ proc[p].ret = "p_stored" =>
                    st.store = "pending" /\ Complete(proc[p].mem)

\* A processAndStoreMessage call has run all three stages and is over.
C7_Witness ==
    \E p \in Procs :
        /\ proc[p].op = "processAndStoreMessage"
        /\ proc[p].pc = "done"
        /\ proc[p].res.tag = "stored"
        /\ proc[p].stages = [summarize |-> "returned", embed |-> "returned",
                             store |-> "returned"]

\* C8: a processAndStoreMessage call that arrives while isProcessing is true
\* is dropped: it calls no stage, changes neither the stores nor
\* isProcessing, and once it has returned nothing of it is left to run.
C8_BusyCallDropped ==
    [][\A p \in Procs :
        /\ (proc[p].pc = "idle" /\ proc'[p].op = "processAndStoreMessage"
                /\ isProcessing) =>
            /\ proc'[p].pc = "done"
            /\ proc'[p].res.tag = "skipped_busy"
            /\ proc'[p].stages = NoStages
            /\ isProcessing' = isProcessing
            /\ UNCHANGED <<cache, heap, localStorage, nextId>>
        /\ (proc[p].pc = "done" /\ proc[p].res.tag = "skipped_busy") =>
            proc'[p] \in {proc[p], IdleProc}
      ]_vars

\* A call has been dropped while another one is in flight.
C8_Witness ==
    \E p, q \in Procs :
        /\ proc[p].op = "processAndStoreMessage"
        /\ proc[p].pc = "done"
        /\ proc[p].res.tag = "skipped_busy"
        /\ proc[q].op = "processAndStoreMessage"
        /\ proc[q].pc \notin {"idle", "done"}
        /\ isProcessing

(* ------------------------- properties: the store ---------------------- *)

\* C3: when the cache entry of an entity has been dropped after saves that
\* all succeeded, loadMemories returns a store whose memories are the ones
\* last saved.
C3_ReloadReturnsLastSaved ==
    \A p \in Procs :
        (/\ proc[p].pc = "done"
         /\ proc[p].op = "loadMemories"
         /\ hist.expect[p] # <<>>
         /\ hist.expect[p] = localStorage[proc[p].ent]) =>
            proc[p].res.value.memories = hist.expect[p][1].memories

\* p takes the step that ends its addMemory call.
AddPushes(p) == proc[p].pc = "add_push" /\ proc'[p].pc # "add_push"

Contains(memories, m) == \E k \in 1..Len(memories) : memories[k] = m

\* C4: there is one logical store per entity and no update is lost: the
\* store the entity has after an addMemory step holds every record the
\* entity's store held before it.
C4_NoLostUpdate ==
    [][\A p \in Procs :
        AddPushes(p) =>
            LET e == proc[p].ent
            IN  cache[e] # NoObj =>
                    \A k \in 1..Len(heap[cache[e]].memories) :
                        Contains(heap'[cache'[e]].memories,
                                 heap[cache[e]].memories[k])
      ]_vars

MutatingOps == {"addMemory", "deleteMemory", "clearMemories", "importMemories"}

ReportsSuccess(res) ==
    \/ res.tag \in {"memory", "count"}
    \/ res.tag = "bool" /\ res.value

\* C5: a mutating operation that reports success has persisted the new
\* store: its saveMemories call returned true.
C5_SuccessMeansPersisted ==
    \A p \in Procs :
        (proc[p].pc = "done" /\ proc[p].op \in MutatingOps
            /\ ReportsSuccess(proc[p].res)) =>
            proc[p].saveRet = "ok"

\* C6: an import whose persistence write fails leaves the cached store's
\* memories as they were before the import.
C6_ImportAtomic ==
    [][\A p \in Procs :
        (/\ proc[p].pc = "import"
         /\ proc'[p].pc = "done"
         /\ proc'[p].saveRet = "failed"
         /\ cache[proc[p].ent] = proc[p].data) =>
            heap'[cache'[proc[p].ent]].memories = heap[proc[p].data].memories
      ]_vars

Distinct(memories) ==
    \A j, k \in 1..Len(memories) : memories[j].id = memories[k].id => j = k

\* C9: in every reachable state the records of a store have pairwise
\* distinct ids.
C9_IdsDistinct ==
    \A i \in ObjIds : Distinct(heap[i].memories)

\* C10: the record addMemory adds has an id that no record already in the
\* store has.
C10_NewIdFresh ==
    [][\A p \in Procs :
        AddPushes(p) =>
            LET before == heap[proc[p].data].memories
                after == heap'[proc[p].data].memories
            IN  after[Len(after)].id \notin Ids(before)
      ]_vars

\* C11: loadMemories never fails on a store that cannot be read.  When the
\* fetch is not ok, rejects, or gives no parseable JSON, it makes a store
\* with empty memories for the entity, caches it and returns it; a load that
\* finds a cache entry returns the cached store.
C11_LoadNeverFails ==
    [][\A p \in Procs :
        /\ (proc[p].pc = "fetch" /\ proc'[p].pc # "fetch" /\ proc'[p].readFailed) =>
            /\ proc'[p].data # NoObj
            /\ cache'[proc[p].ent] = proc'[p].data
            /\ heap'[proc'[p].data].memories = <<>>
            /\ heap'[proc'[p].data].character_id = proc[p].ent
        /\ (proc[p].pc = "idle" /\ proc'[p].op = "loadMemories"
                /\ cache[proc'[p].ent] # NoObj) =>
            proc'[p].pc = "read" /\ proc'[p].data = cache[proc'[p].ent]
        /\ (proc[p].pc = "read" /\ proc[p].op = "loadMemories"
                /\ proc'[p] # proc[p]) =>
            /\ proc'[p].pc = "done"
            /\ proc'[p].res.tag = "store"
            /\ proc'[p].res.value = heap[proc[p].data]
      ]_vars

\* A loadMemories call whose read failed has returned an empty store, which
\* is the cached one.
C11_Witness ==
    \E p \in Procs :
        /\ proc[p].op = "loadMemories"
        /\ proc[p].pc = "done"
        /\ proc[p].readFailed
        /\ proc[p].res.value.memories = <<>>
        /\ cache[proc[p].ent] # NoObj
        /\ heap[cache[proc[p].ent]] = proc[p].res.value

\* p takes a step in which saveMemories runs.
Saves(p) ==
    /\ proc[p].pc \in {"add_push", "del_filter", "clear", "import"}
    /\ proc'[p].pc # proc[p].pc
    /\ proc'[p].saveRet # "none"

\* C12: saveMemories does not throw.  It returns false when the write fails
\* and true when it succeeds, and in both cases it has set updated_at to the
\* time of the call and put the data in the cache; only a write that
\* succeeded changes what is persisted.
C12_SaveReturnsStatus ==
    [][\A p \in Procs :
        Saves(p) =>
            LET e == proc[p].ent
                d == proc[p].data
            IN  /\ proc'[p].saveRet \in {"ok", "failed"}
                /\ proc'[p].pc = "done"
                /\ proc'[p].res.tag # "throw"
                /\ cache'[e] = d
                /\ heap'[d].updated_at = now'
                /\ proc'[p].saveRet = "ok" => localStorage'[e] = <<heap'[d]>>
                /\ proc'[p].saveRet = "failed" => localStorage'[e] = localStorage[e]
      ]_vars

\* A save has failed after the clock moved: the call is over, the cache
\* holds the data with the new updated_at, and nothing was persisted.
C12_Witness ==
    \E p \in Procs :
        /\ proc[p].pc = "done"
        /\ proc[p].saveRet = "failed"
        /\ cache[proc[p].ent] # NoObj
        /\ heap[cache[proc[p].ent]].updated_at = now
        /\ heap[cache[proc[p].ent]].created_at < now
        /\ localStorage[proc[p].ent] = <<>>

\* C13: importMemories of the text exportMemories returned, with merge =
\* false, leaves the store with the memories sequence the export was made
\* of: the same records, ids and embeddings included, in the same order.
C13_RoundTrip ==
    [][\A p \in Procs :
        (/\ proc[p].pc = "import"
         /\ proc'[p].pc = "done"
         /\ ~proc[p].merge
         /\ hist.exported # <<>>
         /\ proc[p].payload = JSONparse(hist.exported[1])) =>
            heap'[proc[p].data].memories = hist.exportedFrom
      ]_vars

\* A store of two records has been exported and the text imported back with
\* merge = false.
C13_Witness ==
    \E p \in Procs :
        /\ proc[p].op = "importMemories"
        /\ proc[p].pc = "done"
        /\ ~proc[p].merge
        /\ proc[p].res.tag = "count"
        /\ proc[p].res.value = 2
        /\ hist.exported # <<>>
        /\ Len(hist.exportedFrom) = 2
        /\ cache[proc[p].ent] # NoObj
        /\ heap[cache[proc[p].ent]].memories = hist.exportedFrom

\* C14: an import with merge = true keeps the existing records, unchanged
\* and first, skips the payload records whose id the store already had,
\* and appends the others in payload order; importing the same payload
\* again with merge = true changes nothing.
C14_MergeKeepsAndIsIdempotent ==
    [][\A p \in Procs :
        (proc[p].pc = "import" /\ proc'[p].pc = "done" /\ proc[p].merge) =>
            LET current == heap[proc[p].data].memories
                incoming == proc[p].payload.memories
                after == heap'[proc[p].data].memories
                IsNew(m) == m.id \notin Ids(current)
            IN  /\ Len(after) >= Len(current)
                /\ SubSeq(after, 1, Len(current)) = current
                /\ SubSeq(after, Len(current) + 1, Len(after)) =
                        SelectSeq(incoming, IsNew)
                /\ Ids(incoming) \subseteq Ids(current) => after = current
                /\ Imported(after, incoming, TRUE) = after
      ]_vars

\* A merge import of records 101 and 102 into the store read from the file
\* (102, 103) is over: 102 is the file's, 101 was appended.
C14_Witness ==
    \E p \in Procs :
        /\ proc[p].op = "importMemories"
        /\ proc[p].pc = "done"
        /\ proc[p].merge
        /\ cache[proc[p].ent] # NoObj
        /\ LET ms == heap[cache[proc[p].ent]].memories
           IN  /\ Len(ms) = 3
               /\ ms[1].id = 102 /\ ms[1].summary = "from file"
               /\ ms[2].id = 103
               /\ ms[3] = ForeignRecord(101)

\* C15: importMemories of a text that does not parse, or that has no
\* memories array, fails with an error before anything is loaded: the cache,
\* every store with its memories and updated_at, and what is persisted are
\* as they were, and no import of such a text ever gets further.
C15_BadImportChangesNothing ==
    [][\A p \in Procs :
        /\ (proc[p].pc = "idle" /\ proc'[p].op = "importMemories"
                /\ proc'[p].pc = "done") =>
            /\ proc'[p].res.tag = "throw"
            /\ UNCHANGED <<cache, heap, localStorage, now, nextId>>
        /\ (proc'[p].op = "importMemories" /\ proc'[p].pc \in {"fetch", "import"}) =>
            proc'[p].payload.kind = "ok"
      ]_vars

\* An import has failed on its format while the entity has a cached store
\* with records and a persisted state.
C15_Witness ==
    \E p \in Procs :
        /\ proc[p].op = "importMemories"
        /\ proc[p].pc = "done"
        /\ proc[p].res.tag = "throw"
        /\ cache[proc[p].ent] # NoObj
        /\ Len(heap[cache[proc[p].ent]].memories) > 0
        /\ localStorage[proc[p].ent] # <<>>

\* p takes the step that ends its deleteMemory call.
Deletes(p) == proc[p].pc = "del_filter" /\ proc'[p].pc = "done"

\* C16: deleteMemory with an id that is in the store removes the records
\* with that id, keeps the others in their order, persists the store and
\* returns true; with an id that is not in the store it returns false and
\* leaves the memories, updated_at and the persisted state as they were.
C16_DeleteMemory ==
    [][\A p \in Procs :
        Deletes(p) =>
            LET e == proc[p].ent
                d == proc[p].data
                current == heap[d].memories
                Other(m) == m.id # proc[p].mid
            IN  IF proc[p].mid \in Ids(current)
                THEN /\ heap'[d].memories = SelectSeq(current, Other)
                     /\ proc'[p].res = [tag |-> "bool", value |-> TRUE]
                     /\ localStorage'[e] = <<heap'[d]>>
                ELSE /\ proc'[p].res = [tag |-> "bool", value |-> FALSE]
                     /\ cache[e] = d => heap'[d] = heap[d]
                     /\ UNCHANGED <<cache, localStorage>>
      ]_vars

\* C17: clearMemories empties the memories of the entity's store and
\* persists the empty store; the store keeps its entity id, entity name and
\* created_at and stays the entity's cached store, ready for addMemory.
C17_ClearKeepsShell ==
    [][\A p \in Procs :
        (proc[p].pc = "clear" /\ proc'[p].pc = "done") =>
            LET e == proc[p].ent
                d == proc[p].data
            IN  /\ heap'[d].memories = <<>>
                /\ heap'[d].character_id = heap[d].character_id
                /\ heap'[d].character_name = heap[d].character_name
                /\ heap'[d].created_at = heap[d].created_at
                /\ cache'[e] = d
                /\ proc'[p].res = [tag |-> "bool", value |-> TRUE]
                /\ localStorage'[e] = <<heap'[d]>>
      ]_vars

(* ------------------------- properties: retrieval ---------------------- *)

\* A call of findTopKSimilar has returned results.
Returns(p) == proc[p].op = "findTopKSimilar" /\ proc[p].pc = "returned"

ResultIds(results) == [i \in 1..Len(results) |-> results[i].memory.id]

\* The case of similarities 0.96, 0.96, 1.0, 0.6 with k = 3 and threshold
\* 0.7: two equal scores before a higher one, and one below the threshold.
TieCase(a) ==
    /\ a.queryEmbedding = Given(<<3, 4>>)
    /\ a.memories # Missing
    /\ [i \in 1..Len(a.memories[1]) |-> a.memories[1][i].embedding] =
            <<<<4, 3>>, <<4, 3>>, <<3, 4>>, <<5, 0>>>>
    /\ a.topK = 3
    /\ a.threshold = 70

\* C18: the results of findTopKSimilar are in non-increasing order of
\* similarity, and results of equal similarity are in the order their
\* memories have in the input (the id of a memory of the model is its
\* position there); for similarities (0.96, 0.96, 1.0, 0.6), k = 3 and
\* threshold 0.7 the result is the memories at indices 2, 0, 1.
C18_SortedAndStable ==
    \A p \in Procs :
        Returns(p) =>
            LET r == proc[p].res.value
            IN  /\ \A i, j \in 1..Len(r) :
                    i < j =>
                        /\ r[i].similarity >= r[j].similarity
                        /\ r[i].similarity = r[j].similarity =>
                                r[i].memory.id < r[j].memory.id
                /\ TieCase(proc[p].args) => ResultIds(r) = <<3, 1, 2>>

\* The call with similarities (0.96, 0.96, 1.0, 0.6) has returned the third
\* memory, then the first, then the second.
C18_Witness ==
    \E p \in Procs :
        /\ Returns(p)
        /\ TieCase(proc[p].args)
        /\ ResultIds(proc[p].res.value) = <<3, 1, 2>>
        /\ proc[p].res.value[2].similarity = proc[p].res.value[3].similarity

\* The positions of the input memories that have an embedding and whose
\* similarity to the query is at least the threshold.
Above(a) ==
    {i \in 1..Len(a.memories[1]) :
        /\ HasEmbedding(a.memories[1][i])
        /\ cosineSimilarity(a.queryEmbedding,
                            Given(a.memories[1][i].embedding)) >= a.threshold}

\* C19: for a query vector and a memory collection, findTopKSimilar returns
\* min(k, number of memories at or above the threshold) results; each is an
\* input memory with its similarity, which is at least the threshold, none
\* is returned twice, and no memory at or above the threshold that was left
\* out has a higher similarity than a returned one.
C19_TopKOfAboveThreshold ==
    \A p \in Procs :
        (Returns(p) /\ proc[p].args.queryEmbedding # Missing
                    /\ proc[p].args.memories # Missing) =>
            LET a == proc[p].args
                r == proc[p].res.value
                n == Cardinality(Above(a))
                returned == {r[i].memory.id : i \in 1..Len(r)}
            IN  /\ Len(r) = IF a.topK < n THEN a.topK ELSE n
                /\ returned \subseteq Above(a)
                /\ Cardinality(returned) = Len(r)
                /\ \A i \in 1..Len(r) :
                    /\ r[i].memory = a.memories[1][r[i].memory.id]
                    /\ r[i].similarity = cosineSimilarity(a.queryEmbedding,
                                            Given(r[i].memory.embedding))
                    /\ r[i].similarity >= a.threshold
                    /\ \A j \in Above(a) \ returned :
                        cosineSimilarity(a.queryEmbedding,
                                         Given(a.memories[1][j].embedding))
                            <= r[i].similarity

\* A call has returned 2 results although 3 memories were at or above the
\* threshold and a fourth was below it.
C19_Witness ==
    \E p \in Procs :
        /\ Returns(p)
        /\ proc[p].args.queryEmbedding = Given(<<3, 4>>)
        /\ proc[p].args.memories # Missing
        /\ Len(proc[p].args.memories[1]) = 4
        /\ proc[p].args.threshold = 70
        /\ proc[p].args.topK = 2
        /\ Cardinality(Above(proc[p].args)) = 3
        /\ Len(proc[p].res.value) = 2

\* C20: findTopKSimilar returns an empty sequence whenever the query vector
\* is missing or empty or the memory collection is missing or empty,
\* whatever k and the threshold are, threshold 0 included.
C20_EmptyOnMissingInput ==
    \A p \in Procs :
        (/\ Returns(p)
         /\ \/ proc[p].args.queryEmbedding \in {Missing, Given(<<>>)}
            \/ proc[p].args.memories \in {Missing, Given(<<>>)}) =>
            proc[p].res.value = <<>>

\* An embedding findTopKSimilar can score against the query: it is there,
\* has the query's dimension and is not the zero vector.
GoodEmbedding(a, memory) ==
    /\ HasEmbedding(memory)
    /\ a.queryEmbedding # Missing
    /\ Len(memory.embedding) = Len(a.queryEmbedding[1])
    /\ Dot(memory.embedding, memory.embedding) # 0

\* C21: a record without an embedding is never returned, and the records
\* with a bad embedding (missing, empty, of another dimension, of norm zero)
\* change nothing for the others: the other records that are returned, and
\* their order, are what the call returns for the collection without the bad
\* records.
C21_BadRecordsChangeNothing ==
    \A p \in Procs :
        (Returns(p) /\ proc[p].args.queryEmbedding # Missing
                    /\ proc[p].args.memories # Missing) =>
            LET a == proc[p].args
                r == proc[p].res.value
                Good(m) == GoodEmbedding(a, m)
                GoodItem(item) == GoodEmbedding(a, item.memory)
            IN  /\ \A i \in 1..Len(r) : HasEmbedding(r[i].memory)
                /\ SelectSeq(r, GoodItem) =
                        findTopKSimilar(a.queryEmbedding,
                                        Given(SelectSeq(a.memories[1], Good)),
                                        a.topK, a.threshold)

(* ------------------------- properties: the read path ------------------ *)

Retrieved(p) ==
    proc[p].op = "retrieveRelevantMemories" /\ proc[p].pc = "done"

\* C22: retrieveRelevantMemories never raises: it returns a list, which is
\* empty without an active character (and then no embedding call was made),
\* when embedQuery threw or returned an empty vector, and when the store
\* has no memories.
C22_RetrievalNeverRaises ==
    \A p \in Procs : Retrieved(p) =>
        /\ proc[p].res.tag = "results"
        /\ proc[p].res.tag = "results" =>
            /\ proc[p].ent = NoCharacter =>
                proc[p].res.value = <<>> /\ proc[p].stages.embed = "none"
            /\ proc[p].stages.embed = "threw" => proc[p].res.value = <<>>
            /\ (proc[p].stages.embed = "returned" /\ proc[p].embedding = <<>>) =>
                proc[p].res.value = <<>>
            /\ proc[p].args.memories = Given(<<>>) => proc[p].res.value = <<>>

\* A retrieval whose embedQuery threw has returned.
C22_Witness ==
    \E p \in Procs : Retrieved(p) /\ proc[p].stages.embed = "threw"
                                  /\ proc[p].res.tag = "results"

\* An embedding request of invocation p is out.
Embedding(p) == proc[p].pc \in {"p_embed", "b_embed", "r_embed"}

\* C23: every embedding request of a write path (processAndStoreMessage,
\* storeCurrentChat) has input type 'document', every request of the read
\* path (retrieveRelevantMemories) has input type 'query'.
C23_InputTypes ==
    \A p \in Procs : Embedding(p) =>
        /\ proc[p].op \in WriteOps => proc[p].inputType = "document"
        /\ proc[p].op = "retrieveRelevantMemories" => proc[p].inputType = "query"
        /\ proc[p].op \in WriteOps \cup {"retrieveRelevantMemories"}

\* A request of the batch and a request of a retrieval are out together.
C23_Witness ==
    \E p, q \in Procs :
        /\ Embedding(p) /\ proc[p].op = "storeCurrentChat"
        /\ Embedding(q) /\ proc[q].op = "retrieveRelevantMemories"

(* ------------------------- properties: the embedding client ----------- *)

\* The texts of the call of invocation p, in the order of the input.
InputTexts(p) == TextsOf(proc[p].call.input)

\* The call of invocation p has returned embeddings.
Embedded(p) ==
    proc[p].pc = "returned" /\ proc[p].res.tag \in {"result", "embeddings"}

Vector(p, k) ==
    IF proc[p].res.tag = "result" THEN proc[p].res.embeddings[k]
    ELSE proc[p].res.value[k]

VectorCount(p) ==
    IF proc[p].res.tag = "result" THEN Len(proc[p].res.embeddings)
    ELSE Len(proc[p].res.value)

\* C24: whatever the order of the items in the answers of the service, the
\* i-th vector embed returns, and the i-th vector embedDocuments returns
\* over all its batches, is the vector the service computed for the i-th
\* text of the input.
C24_EmbeddingsInInputOrder ==
    \A p \in Procs : Embedded(p) =>
        /\ VectorCount(p) = Len(InputTexts(p))
        /\ \A k \in 1..Len(InputTexts(p)) :
                Vector(p, k) = EmbeddingOf(InputTexts(p)[k])

\* embedDocuments has returned the vectors of two batches.
C24_Witness ==
    \E p \in Procs :
        /\ Embedded(p)
        /\ proc[p].call.method = "embedDocuments"
        /\ Len(proc[p].call.requests) = 2
        /\ VectorCount(p) = BATCH_SIZE + 1

\* C25: without an API key embed throws the configuration error and sends
\* nothing; with a key and an empty list it returns no embeddings and zero
\* tokens and sends nothing; a response that is not a success makes it throw
\* an error that carries the status of the response.
C25_EmbedErrors ==
    \A p \in Procs : (proc[p].op = "embed" /\ proc[p].pc = "returned") =>
        LET c == proc[p].call
            res == proc[p].res
        IN  /\ c.apiKey = "" =>
                /\ res.tag = "threw"
                /\ res.tag = "threw" =>
                        res.error = "VoyageAI API key is not configured"
                /\ c.requests = <<>>
            /\ (c.apiKey # "" /\ c.input.isArray /\ c.input.items = <<>>) =>
                /\ res = EmbedResult(<<>>, 0)
                /\ c.requests = <<>>
            /\ c.status \in ErrorStatuses =>
                /\ res.tag = "threw"
                /\ res.tag = "threw" =>
                        res.error = "VoyageAI API error" /\ res.status = c.status

\* A request was answered with status 401 and embed has thrown.
C25_Witness ==
    \E p \in Procs :
        /\ proc[p].op = "embed" /\ proc[p].pc = "returned"
        /\ proc[p].call.status = 401
        /\ proc[p].res.tag = "threw"

(* ------------------------- properties: the batch ---------------------- *)

\* storeCurrentChat has gone through its loop and returned.
BatchDone(p) ==
    /\ proc[p].op = "storeCurrentChat"
    /\ proc[p].pc = "done"
    /\ proc[p].res.tag = "batch_done"

\* The records of the store of entity e, as a load of e would see them.
StoreMemories(e) == IF cache[e] = NoObj THEN <<>> ELSE heap[cache[e]].memories

\* C26: when storeCurrentChat is over, every eligible message is counted
\* once, as processed or as failed, and the store holds the records the
\* batch added, one for each processed message.
C26_BatchAccounting ==
    \A p \in Procs : BatchDone(p) =>
        /\ proc[p].processed + proc[p].failed = proc[p].eligible
        /\ Len(proc[p].added) = proc[p].processed
        /\ \A k \in 1..Len(proc[p].added) :
            Cardinality({i \in 1..Len(StoreMemories(proc[p].ent)) :
                StoreMemories(proc[p].ent)[i].id = proc[p].added[k]}) = 1

\* A step in which invocation p starts as processAndStoreMessage with a
\* text of fewer than 20 characters.
ShortRequest(p) ==
    /\ proc[p].pc = "idle"
    /\ proc'[p].op = "processAndStoreMessage"
    /\ proc'[p].text.length < 20

\* A step of storeCurrentChat in invocation p.
BatchStep(p) == proc'[p].op = "storeCurrentChat" /\ proc'[p] # proc[p]

\* C27: a text of fewer than 20 characters is a no-op on both write paths.
\* processAndStoreMessage returns at once: no stage is started, the store
\* and the flag isProcessing stay as they are.  storeCurrentChat never takes
\* such a message up, neither as the message it works on nor in its queue,
\* and never touches the flag.
C27_ShortTextIsNoOp ==
    [][\A p \in Procs :
        /\ ShortRequest(p) =>
            /\ proc'[p].pc = "done"
            /\ proc'[p].stages = NoStages
            /\ isProcessing' = isProcessing
            /\ <<cache, heap, localStorage>>' = <<cache, heap, localStorage>>
        /\ BatchStep(p) =>
            /\ isProcessing' = isProcessing
            /\ proc'[p].pc \in {"b_summarize", "b_embed"} =>
                    proc'[p].text.length >= 20
            /\ \A k \in 1..Len(proc'[p].queue) :
                    proc'[p].queue[k].mes.length >= 20]_vars

\* processAndStoreMessage has skipped a text of 5 characters while no write
\* was in flight, and a batch is at work.
C27_Witness ==
    \E p, q \in Procs :
        /\ proc[p].op = "processAndStoreMessage" /\ proc[p].pc = "done"
        /\ proc[p].text.length < 20
        /\ proc[p].res.tag = "skipped_short"
        /\ proc[q].op = "storeCurrentChat" /\ proc[q].pc = "b_embed"

(* ------------------------- properties: the cache ---------------------- *)

\* C28: once the chat has changed, no load, for whatever character, returns
\* an object that was put in the cache before the change and has not been
\* put there again since.
C28_NoStaleEntryAfterChange ==
    [][\A p \in Procs :
        (proc[p].data = NoObj /\ proc'[p].data # NoObj) =>
            proc'[p].data \notin hist'.stale]_vars

(* ------------------------- properties: overlapping retrieval ---------- *)

\* getMemories or retrieveRelevantMemories of invocation p has returned
\* after it had the memories of its store.
Observed(p) ==
    /\ proc[p].pc = "done"
    /\ \/ proc[p].op = "getMemories"
       \/ proc[p].op = "retrieveRelevantMemories" /\ proc[p].args.memories # Missing

\* The memories it had.
Observation(p) ==
    IF proc[p].op = "getMemories" THEN proc[p].res.value
    ELSE proc[p].args.memories[1]

\* An addMemory for the entity of p has loaded and not pushed yet.
AddPending(p, q) ==
    /\ q # p
    /\ proc[q].pc = "add_push"
    /\ proc[q].ent = proc[p].ent

StoresMemory(p) ==
    /\ proc[p].op = "processAndStoreMessage"
    /\ proc[p].pc = "add_push"
    /\ proc'[p].pc = "p_stored"

\* C30: processAndStoreMessage with a text of at least 20 characters, role
\* r, summary s and embedding e appends one record to the store of
\* context.characterId: original_message is the text as it came, summary is
\* s, embedding is e, role is r; and a call that ends in success has added
\* exactly one record.
C30_StoredRecord ==
    [][\A p \in Procs :
        /\ StoresMemory(p) =>
            LET d == proc[p].data
                record == proc'[p].res.value
            IN  /\ proc[p].text.length >= 20
                /\ proc[p].summary \in SummaryTexts
                /\ proc[p].embedding \in Vectors
                /\ cache'[proc[p].ent] = d
                /\ heap'[d].memories = Append(heap[d].memories, record)
                /\ record.original_message = proc[p].text
                /\ record.summary = proc[p].summary
                /\ record.embedding = proc[p].embedding
                /\ record.role = proc[p].role
                /\ proc[p].role \in Roles
        /\ (proc'[p].op = "processAndStoreMessage" /\ proc'[p].pc = "done"
                /\ proc'[p].res.tag = "stored") =>
            Len(proc'[p].added) = 1]_vars

\* The record of a message of the assistant has been stored in a store that
\* held other records.
C30_Witness ==
    \E p \in Procs :
        /\ proc[p].op = "processAndStoreMessage"
        /\ proc[p].pc = "p_stored"
        /\ proc[p].role = "assistant"
        /\ proc[p].res.tag = "memory"
        /\ proc[p].res.value.role = "assistant"
        /\ cache[proc[p].ent] # NoObj
        /\ Len(StoreMemories(proc[p].ent)) >= 2

\* An importMemories call of invocation p has returned its count.
ImportReturned(p) ==
    /\ proc[p].op = "importMemories"
    /\ proc[p].pc = "done"
    /\ proc[p].res.tag = "count"

\* C32: the value importMemories returns is the number of records it put
\* into the store: the length of the payload when it replaces, and with
\* merge the number of records of the payload it added, the ones skipped for
\* their id not counted.
C32_ImportCount ==
    \A p \in Procs : ImportReturned(p) =>
        proc[p].res.value = Len(proc[p].added)

\* The store objects something refers to: the cache or a call in flight.
Stores == Refs(cache, proc)

\* The mutating calls of MemoryStorage.
Mutators == {"addMemory", "deleteMemory", "clearMemories", "importMemories"}

\* C35: a step that changes the memories of a store sets its updated_at to
\* the time of the step, no step changes the created_at of a store that
\* exists, and created_at <= updated_at holds for every store and for every
\* persisted copy.
C35_Timestamps ==
    /\ [](/\ \A o \in Stores : heap[o].created_at <= heap[o].updated_at
          /\ \A e \in DOMAIN localStorage : \A k \in 1..Len(localStorage[e]) :
                localStorage[e][k].created_at <= localStorage[e][k].updated_at)
    /\ [][\A o \in Stores \cap Refs(cache', proc') :
            /\ heap'[o].created_at = heap[o].created_at
            /\ heap'[o].memories # heap[o].memories =>
                    heap'[o].updated_at = now']_vars

\* A mutating call has changed a store that existed before: the store is
\* younger in updated_at than in created_at.
C35_Witness ==
    \E p \in Procs :
        /\ proc[p].op \in Mutators
        /\ proc[p].pc = "done"
        /\ proc[p].saveRet # "none"
        /\ cache[proc[p].ent] # NoObj
        /\ heap[cache[proc[p].ent]].updated_at = now
        /\ heap[cache[proc[p].ent]].created_at < now

\* a is b with some elements left out, the rest in the order of b.
IsSubSeq(a, b) ==
    \E f \in [1..Len(a) -> 1..Len(b)] :
        /\ \A i \in 1..Len(a) : a[i] = b[f[i]]
        /\ \A i, j \in 1..Len(a) : i < j => f[i] < f[j]

\* a begins with b.
StartsWith(a, b) == Len(b) <= Len(a) /\ SubSeq(a, 1, Len(b)) = b

\* Invocation p takes the step that follows its load at pc.
StepsFrom(p, pc) == proc[p].pc = pc /\ proc'[p].pc # pc

\* C36: memories keeps insertion order.  The store an addMemory step leaves
\* is the sequence it loaded with the new record as last element; the
\* store a deleteMemory step leaves is the sequence it loaded with records
\* left out and the others in their order; the store a merge import leaves
\* begins with the sequence it loaded.
C36_InsertionOrder ==
    [][\A p \in Procs :
        LET e == proc[p].ent
            loaded == heap[proc[p].data].memories
            left == heap'[cache'[e]].memories
        IN  /\ StepsFrom(p, "add_push") =>
                left = Append(loaded, proc'[p].res.value)
            /\ StepsFrom(p, "del_filter") /\ cache'[e] = proc[p].data =>
                IsSubSeq(left, loaded)
            /\ StepsFrom(p, "import") /\ proc[p].merge =>
                StartsWith(left, loaded)
      ]_vars

\* An addMemory call has returned its record, which stands last in a store
\* of three records, behind the two that were there.
C36_Witness ==
    \E p \in Procs :
        /\ proc[p].op = "addMemory"
        /\ proc[p].pc = "done"
        /\ cache[proc[p].ent] # NoObj
        /\ LET ms == heap[cache[proc[p].ent]].memories
           IN  /\ Len(ms) = 3
               /\ ms[3] = proc[p].res.value
               /\ SubSeq(ms, 1, 2) = FileStore(proc[p].ent).memories

\* The calls of MemoryStorage that only read.
ReadOnlyOps == {"getMemories", "getStats", "exportMemories"}

\* C39: a step of getMemories, getStats or exportMemories leaves the
\* memories and the updated_at of the store its entity has, and the
\* persisted state, as they are, whatever else is in flight.
C39_ReadsChangeNothing ==
    [][\A p \in Procs :
        (proc[p].op \in ReadOnlyOps /\ proc'[p] # proc[p]) =>
            LET e == proc[p].ent
            IN  /\ localStorage' = localStorage
                /\ cache[e] # NoObj =>
                    /\ cache'[e] # NoObj
                    /\ heap'[cache'[e]].memories = heap[cache[e]].memories
                    /\ heap'[cache'[e]].updated_at = heap[cache[e]].updated_at
      ]_vars

\* A processAndStoreMessage invocation that passed its guards is over.
WriteOver(p) ==
    /\ proc[p].op = "processAndStoreMessage"
    /\ proc[p].pc = "done"
    /\ proc[p].res.tag \notin {"skipped_busy", "skipped_short"}

\* The number of notifications invocation p has shown.
Notifications(p) ==
    proc[p].toasts.success + proc[p].toasts.error + proc[p].toasts.warning

\* C31: a processAndStoreMessage invocation that passed its guards ends
\* with exactly one notification: the success notification when the record
\* was stored (addMemory returned and its write was done), the error
\* notification when a stage failed.
C31_OneNotification ==
    \A p \in Procs : WriteOver(p) =>
        LET stored == proc[p].stages.store = "returned" /\ proc[p].saveRet = "ok"
        IN  /\ Notifications(p) = 1
            /\ stored => proc[p].toasts.success = 1
            /\ ~stored => proc[p].toasts.error = 1

(* ------------------------- index.js: raw history ---------------------- *)

MaxRawChat == 3

\* The state in which the first invocation is loc and nothing else has
\* happened.
InitCall(loc) ==
    /\ cache = [e \in Chars |-> NoObj]
    /\ heap = [i \in ObjIds |-> NilStore]
    /\ localStorage = [e \in Chars |-> <<>>]
    /\ now = 0
    /\ nextId = 1
    /\ calls = 1
    /\ isProcessing = FALSE
    /\ hist = NoHist
    /\ proc = [p \in Procs |-> IF p = 1 THEN loc ELSE IdleProc]

\* A message text with its content and the length of its trim().
RawText(content, trimmed) == [content |-> content, trimmed |-> trimmed]

\* Messages in the chat of the host: two of the user and one of the
\* character with the same text, one with another text, a short one, and a
\* system message.
RawMessages ==
    {Message(RawText("a", 40), TRUE, FALSE), Message(RawText("a", 40), FALSE, FALSE),
     Message(RawText("b", 40), TRUE, FALSE), Message(RawText("ok", 2), FALSE, FALSE),
     Message(RawText("a", 40), FALSE, TRUE)}

RawChats == SeqsUpTo(RawMessages, MaxRawChat) \ {<<>>}

\* context.chat.findIndex(m => m.mes === messageText) (index.js:519), as
\* the index JavaScript counts from 0, -1 when there is none.
findIndex(chat, messageText) ==
    LET same == {i \in 1..Len(chat) : chat[i].mes = messageText}
    IN  IF same = {} THEN -1 ELSE Min(same) - 1

\* The loop of getRecentRawMessages (index.js:460-482) from index i (counted
\* from 0) downwards.  An entry carries, besides role, name and content, the
\* index in the chat it was taken from.
RECURSIVE RawLoop(_, _, _, _, _, _, _)
RawLoop(chat, i, messages, count, includeBot, includeUser, excludeIndex) ==
    IF i < 0 \/ Len(messages) >= count
    THEN messages
    ELSE LET msg == chat[i + 1]
             skip == \/ msg.is_system
                     \/ excludeIndex >= 0 /\ i = excludeIndex
                     \/ msg.is_user /\ ~includeUser
                     \/ ~msg.is_user /\ ~includeBot
                     \/ msg.mes.trimmed < 5
             entry == [role |-> IF msg.is_user THEN "user" ELSE "assistant",
                       name |-> IF msg.is_user THEN "name1" ELSE "name2",
                       content |-> msg.mes,
                       index |-> i]
         IN  RawLoop(chat, i - 1, IF skip THEN messages ELSE Append(messages, entry),
                     count, includeBot, includeUser, excludeIndex)

\* getRecentRawMessages(context, count, includeBot, includeUser, excludeIndex)
\* (index.js:454-486)
getRecentRawMessages(chat, count, includeBot, includeUser, excludeIndex) ==
    IF Len(chat) = 0 THEN <<>>
    ELSE Reverse(RawLoop(chat, Len(chat) - 1, <<>>, count, includeBot,
                         includeUser, excludeIndex))

\* A message handler has called processAndStoreMessage with the text of
\* message messageId of the chat (index.js:325-329, 347-351), the text has
\* passed the guards, and include_raw_history is on.
InitRawHistory ==
    /\ DefaultExtension
    /\ \E chat \in RawChats, messageId \in 0..(MaxRawChat - 1), count \in 1..2,
       includeBot \in BOOLEAN, includeUser \in BOOLEAN :
        /\ messageId < Len(chat)
        /\ ~chat[messageId + 1].is_system
        /\ chat[messageId + 1].mes.trimmed >= MinMessageLength
        /\ InitCall([Call("processAndStoreMessage") EXCEPT
                        !.pc = "p_raw",
                        !.args = [chat |-> chat, messageId |-> messageId,
                                  messageText |-> chat[messageId + 1].mes,
                                  raw_history_count |-> count,
                                  raw_include_bot |-> includeBot,
                                  raw_include_user |-> includeUser]])

\* The raw history is gathered (index.js:516-528).
GatherRawHistory(p) ==
    /\ UNCHANGED <<settings, summarizerClient>>
    /\ proc[p].pc = "p_raw"
    /\ LET a == proc[p].args
           currentMsgIndex == findIndex(a.chat, a.messageText)
       IN  proc' = [proc EXCEPT
                ![p].pc = "returned",
                ![p].res = [tag |-> "rawHistory",
                            value |-> getRecentRawMessages(
                                a.chat, a.raw_history_count, a.raw_include_bot,
                                a.raw_include_user, currentMsgIndex)]]
    /\ UNCHANGED <<cache, heap, localStorage, now, nextId, calls, isProcessing, hist>>

NextRawHistory == \E p \in Procs : GatherRawHistory(p)

SpecRawHistory == InitRawHistory /\ [][NextRawHistory]_vars

\* The raw history of invocation p has been gathered.
RawGathered(p) == proc[p].pc = "returned" /\ proc[p].res.tag = "rawHistory"

\* What holds of every raw history besides the exclusion of the current
\* message: at most raw_history_count entries, each a message of the chat
\* that is not a system message and whose role is enabled, oldest first.
RawHistoryShape(a, h) ==
    /\ Len(h) <= a.raw_history_count
    /\ \A k \in 1..Len(h) :
        LET msg == a.chat[h[k].index + 1]
        IN  /\ ~msg.is_system
            /\ h[k].content = msg.mes
            /\ msg.is_user => a.raw_include_user /\ h[k].role = "user"
            /\ ~msg.is_user => a.raw_include_bot /\ h[k].role = "assistant"
    /\ \A j, k \in 1..Len(h) : j < k => h[j].index < h[k].index

\* C33: the raw history gathered for a write never contains the message
\* being processed, also when an earlier message of the chat has the same
\* text; it has at most raw_history_count entries, only messages that are
\* not system messages and whose role is enabled, oldest first.
C33_RawHistory ==
    \A p \in Procs : RawGathered(p) =>
        /\ \A k \in 1..Len(proc[p].res.value) :
                proc[p].res.value[k].index # proc[p].args.messageId
        /\ RawHistoryShape(proc[p].args, proc[p].res.value)

(* ------------------------- lib/summarizer.js: formatUserContent ------- *)

\* The content is kept as its sequence of lines.  A line is a marker, a line
\* of the raw history "[name]: content", a summary, or the message with or
\* without "[speaker]: " in front.
Marker(text) == [kind |-> "marker", name |-> "", content |-> text]
RawLine(msg) == [kind |-> "raw", name |-> msg.name, content |-> msg.content]
SummaryLine(summary) == [kind |-> "summary", name |-> "", content |-> summary]
TargetLine(speaker, message) == [kind |-> "target", name |-> speaker, content |-> message]
BlankLine == Marker("")

RawBegin == Marker("=== RECENT CHAT HISTORY (for context only) ===")
RawEnd == Marker("=== END OF CHAT HISTORY ===")
SummariesBegin == Marker("=== PREVIOUS SUMMARIES (for style reference) ===")
SummariesEnd == Marker("=== END OF SUMMARIES ===")
TargetBegin == Marker("=== TARGET MESSAGE TO SUMMARIZE ===")
TargetEnd == Marker("=== END OF TARGET MESSAGE ===")

\* context.x && context.x.length > 0
NonEmpty(x) == x # Missing /\ Len(x[1]) > 0

\* The summaries block of formatUserContent (part_001:232-236, 239-243).
SummariesBlock(summaries) ==
    <<SummariesBegin>>
    \o [k \in 1..Len(summaries) |-> SummaryLine(summaries[k])]
    \o <<SummariesEnd, BlankLine>>

\* The target block of formatUserContent (part_001:246-254).
TargetBlock(message, context) ==
    LET speaker == IF context.role = "" THEN ""
                   ELSE IF context.role = "user"
                        THEN (IF context.userName # "" THEN context.userName ELSE "User")
                        ELSE (IF context.characterName # "" THEN context.characterName
                              ELSE "Character")
    IN  <<TargetBegin, TargetLine(speaker, message), TargetEnd>>

\* The raw history block of formatUserContent (part_001:223-229).
RawBlock(context) ==
    IF NonEmpty(context.rawHistory)
    THEN <<RawBegin>>
         \o [k \in 1..Len(context.rawHistory[1]) |-> RawLine(context.rawHistory[1][k])]
         \o <<RawEnd, BlankLine>>
    ELSE <<>>

\* The block of summaries formatUserContent writes, from summaryHistory or
\* from the older property history (part_001:232-243).
PriorBlock(context) ==
    (IF NonEmpty(context.summaryHistory)
     THEN SummariesBlock(context.summaryHistory[1]) ELSE <<>>)
    \o (IF (context.summaryHistory = Missing) /\ NonEmpty(context.history)
        THEN SummariesBlock(context.history[1]) ELSE <<>>)

\* A formatUserContent that writes the summaries first.
formatSummariesFirst(message, context) ==
    PriorBlock(context) \o RawBlock(context) \o TargetBlock(message, context)

\* formatUserContent(message, context) (part_001:219-257)
formatUserContent(message, context) ==
    RawBlock(context) \o PriorBlock(context) \o TargetBlock(message, context)

\* Entries of a raw history, with the text of the message as content.
RawEntries ==
    {[role |-> "user", name |-> "name1", content |-> "a"],
     [role |-> "assistant", name |-> "name2", content |-> "b"]}

\* The contexts summarize hands over: each property absent, empty or filled.
FormatContexts ==
    [rawHistory : {Missing} \cup {Given(h) : h \in SeqsUpTo(RawEntries, 2)},
     summaryHistory : {Missing} \cup {Given(h) : h \in {<<>>, <<"s1">>, <<"s1", "s2">>}},
     history : {Missing} \cup {Given(h) : h \in {<<>>, <<"h1">>}},
     role : {"", "user", "assistant"},
     userName : {"", "name1"},
     characterName : {"", "name2"}]

\* A call of formatUserContent with its arguments, about to run.
InitFormat ==
    /\ DefaultExtension
    /\ \E message \in {"m", ""}, context \in FormatContexts :
        InitCall([Call("formatUserContent") EXCEPT
                    !.pc = "f_called",
                    !.args = [message |-> message, context |-> context]])

\* The call runs and returns the content.
FormatUserContent(p) ==
    /\ UNCHANGED <<settings, summarizerClient>>
    /\ proc[p].pc = "f_called"
    /\ proc' = [proc EXCEPT
            ![p].pc = "returned",
            ![p].res = [tag |-> "content",
                        value |-> formatUserContent(proc[p].args.message,
                                                    proc[p].args.context)]]
    /\ UNCHANGED <<cache, heap, localStorage, now, nextId, calls, isProcessing, hist>>

NextFormat == \E p \in Procs : FormatUserContent(p)

SpecFormat == InitFormat /\ [][NextFormat]_vars

\* formatUserContent has returned in invocation p.
Formatted(p) == proc[p].pc = "returned" /\ proc[p].res.tag = "content"

\* The places of line in content.
Places(content, line) == {k \in 1..Len(content) : content[k] = line}

\* C37: formatUserContent writes its blocks in the order raw history,
\* prior summaries, target message.  The block of an optional input that is
\* absent or empty is left out, the block of one that is filled is there
\* once; the target block is there for every input and is the end of the
\* content; the lines of the raw history stand in the order given.
C37_BlockOrder ==
    \A p \in Procs : Formatted(p) =>
        LET c == proc[p].res.value
            ctx == proc[p].args.context
            n == Len(c)
            raw == Places(c, RawBegin)
            prior == Places(c, SummariesBegin)
            target == Places(c, TargetBegin)
        IN  /\ target = {n - 2}
            /\ c[n - 1].kind = "target" /\ c[n - 1].content = proc[p].args.message
            /\ c[n] = TargetEnd
            /\ IF NonEmpty(ctx.rawHistory)
               THEN /\ raw = {1}
                    /\ \A k \in 1..Len(ctx.rawHistory[1]) :
                            c[1 + k] = RawLine(ctx.rawHistory[1][k])
                    /\ c[2 + Len(ctx.rawHistory[1])] = RawEnd
               ELSE raw = {} /\ Places(c, RawEnd) = {}
            /\ NonEmpty(ctx.summaryHistory) => Cardinality(prior) = 1
            /\ ~NonEmpty(ctx.summaryHistory) /\ ~NonEmpty(ctx.history) => prior = {}
            /\ Cardinality(prior) <= 1
            /\ \A i \in raw, j \in prior : i < j
            /\ \A j \in prior, k \in Places(c, RawEnd) : k < j
            /\ \A j \in Places(c, SummariesEnd), k \in target : j < k

\* A content with all three blocks has been written, the raw history of two
\* lines.
C37_Witness ==
    \E p \in Procs :
        /\ Formatted(p)
        /\ NonEmpty(proc[p].args.context.rawHistory)
        /\ Len(proc[p].args.context.rawHistory[1]) = 2
        /\ proc[p].args.context.rawHistory[1][1] # proc[p].args.context.rawHistory[1][2]
        /\ NonEmpty(proc[p].args.context.summaryHistory)
        /\ Places(proc[p].res.value, SummariesBegin) # {}
        /\ Places(proc[p].res.value, RawBegin) # {}

(* ------------------------- index.js: prompt settings ------------------ *)

Languages == {"ko", "en"}
CustomPrompts == {"", "custom prompt", "other prompt"}

\* init starts: the settings are as they were saved in an earlier session,
\* with any language and custom prompt, and there are no clients yet
\* (index.js:66-68).
InitSettings ==
    /\ \E language \in Languages, custom_prompt \in CustomPrompts :
        settings = [defaultSettings EXCEPT !.language = language,
                                           !.custom_prompt = custom_prompt]
    /\ summarizerClient = NoClient
    /\ cache = [e \in Chars |-> NoObj]
    /\ heap = [i \in ObjIds |-> NilStore]
    /\ localStorage = [e \in Chars |-> <<>>]
    /\ now = 0
    /\ nextId = 1
    /\ calls = 0
    /\ isProcessing = FALSE
    /\ hist = NoHist
    /\ proc = [p \in Procs |-> IdleProc]

\* initClients() (index.js:127-141), called once by init.
initClients ==
    /\ summarizerClient = NoClient
    /\ summarizerClient' = SummarizerClient(settings.custom_prompt)
    /\ UNCHANGED <<cache, heap, localStorage, now, nextId, proc, calls,
                   isProcessing, settings, hist>>

\* The change handler of the language select (index.js:222-231).
LanguageChanged ==
    /\ summarizerClient # NoClient
    /\ \E lang \in Languages :
        /\ settings' = [settings EXCEPT !.language = lang]
        /\ summarizerClient' =
                IF settings.custom_prompt = ""
                THEN updateConfig(summarizerClient, getDefaultPrompts[lang])
                ELSE summarizerClient
    /\ UNCHANGED <<cache, heap, localStorage, now, nextId, proc, calls,
                   isProcessing, hist>>

\* The input handler of the custom prompt field (index.js:265-269).
CustomPromptChanged ==
    /\ summarizerClient # NoClient
    /\ \E value \in CustomPrompts :
        /\ settings' = [settings EXCEPT !.custom_prompt = value]
        /\ summarizerClient' = updateConfig(summarizerClient, value)
    /\ UNCHANGED <<cache, heap, localStorage, now, nextId, proc, calls,
                   isProcessing, hist>>

\* processSystemPrompt(context) (part_001:137-149): the template of the
\* client with its placeholders filled in.
processSystemPrompt(client, context) ==
    [template |-> client.systemPrompt, words |-> context.wordLimit,
     user |-> IF context.userName = "" THEN "User" ELSE context.userName]

\* A summarize call is made and builds its system prompt (part_001:156-166).
SummarizeCalled(p) ==
    /\ summarizerClient # NoClient
    /\ Free(p)
    /\ \E userName \in {"", "name1"} :
        proc' = [proc EXCEPT ![p] =
            [Call("summarize") EXCEPT
                !.pc = "s_fetch",
                !.args = [systemPrompt |->
                            processSystemPrompt(summarizerClient,
                                [wordLimit |-> "50", userName |-> userName])]]]
    /\ calls' = calls + 1
    /\ UNCHANGED <<cache, heap, localStorage, now, nextId, isProcessing,
                   settings, summarizerClient, hist>>

\* The request of summarize is answered: the call is over.
SummarizeAnswered(p) ==
    /\ proc[p].pc = "s_fetch"
    /\ proc' = [proc EXCEPT ![p] = IdleProc]
    /\ UNCHANGED <<cache, heap, localStorage, now, nextId, calls, isProcessing,
                   settings, summarizerClient, hist>>

NextSettings ==
    \/ initClients
    \/ LanguageChanged
    \/ CustomPromptChanged
    \/ \E p \in Procs : SummarizeCalled(p) \/ SummarizeAnswered(p)

SpecSettings == InitSettings /\ [][NextSettings]_vars

\* C34: the system prompt template a summarize call uses is the custom
\* prompt when custom_prompt is not empty, else the default prompt of the
\* language of the settings, after any sequence of initClients, language
\* changes and custom prompt changes.
C34_PromptFollowsSettings ==
    [][\A p \in Procs :
        (proc[p].pc = "idle" /\ proc'[p].op = "summarize") =>
            proc'[p].args.systemPrompt.template =
                IF settings.custom_prompt # "" THEN settings.custom_prompt
                ELSE getDefaultPrompts[settings.language]
      ]_vars

(* ------------------------- the write path, with progress -------------- *)

\* A step that continues invocation p after an await: the answer of a
\* remote call or of the fetch, the continuation of a storage call, the
\* return to the caller.
Continue(p) ==
    \/ HistoryLoaded(p)
    \/ SummarizeReturn(p)
    \/ EmbedReturn(p)
    \/ Stored(p)
    \/ StatsShown(p)
    \/ FetchReturn(p)
    \/ AddPush(p)
    \/ Return(p)

NextWrite == \E p \in Procs : StartProcessAndStoreMessage(p) \/ Continue(p)

\* Every call awaited returns and the event loop runs what waits for it: an
\* invocation that can continue does.
SpecWrite == Init /\ [][NextWrite]_vars /\ \A p \in Procs : WF_vars(Continue(p))

\* Invocation p of processAndStoreMessage is past its guards and not over.
Processing(p) ==
    /\ proc[p].op = "processAndStoreMessage"
    /\ proc[p].pc \notin {"idle", "done"}

\* C38: isProcessing is true exactly while one processAndStoreMessage
\* invocation is between its guards and its completion, and whenever it is
\* true it becomes false again, whether the summarizer, the embedder and
\* the store succeed or fail.
C38_FlagIsReset ==
    /\ [](isProcessing <=> Cardinality({p \in Procs : Processing(p)}) = 1)
    /\ [](Cardinality({p \in Procs : Processing(p)}) <= 1)
    /\ isProcessing ~> ~isProcessing

\* An invocation that set the flag has ended in the catch block, after its
\* embedding call threw, and the flag is false.
C38_Witness ==
    \E p \in Procs :
        /\ proc[p].op = "processAndStoreMessage"
        /\ proc[p].pc = "done"
        /\ proc[p].stages.embed = "threw"
        /\ proc[p].res.tag = "error"
        /\ ~isProcessing

(* ------------------------- index.js: the host events ------------------ *)

\* A gate that looks at enabled and auto_store only.
StoreWhenEnabled(s, summarize_role) == s.enabled /\ s.auto_store

\* The settings let a message handler pass (index.js:316-323, 338-345);
\* summarize_role is summarize_bot or summarize_user.
StoreEnabled(s, summarize_role) == s.enabled /\ s.auto_store /\ summarize_role

\* The settings let onBeforePromptGeneration pass (index.js:374).
RetrieveEnabled(s) == s.enabled /\ s.auto_retrieve

\* The chats of the host at an event: a user message and an answer, and a
\* chat with a system message only.
EventChats ==
    {<<Message(Text(40, 40), TRUE, FALSE), Message(Text(40, 40), FALSE, FALSE)>>,
     <<Message(Text(40, 40), FALSE, TRUE)>>}

\* onMessageReceived and onMessageSent (index.js:314-330, 336-352) up to the
\* first await of processAndStoreMessage; messageId counts from 0.
onMessage(p, handler, summarize_role, role) ==
    /\ Free(p)
    /\ \E chat \in EventChats, messageId \in 0..MaxChat, e \in Chars,
          include_history \in BOOLEAN :
        IF \/ ~StoreEnabled(settings, summarize_role)
           \/ messageId >= Len(chat)
           \/ chat[messageId + 1].is_system
        THEN /\ proc' = [proc EXCEPT ![p] = Finish(Call(handler), "ignored")]
             /\ UNCHANGED isProcessing
        ELSE processAndStoreMessage(p,
                [Call(handler) EXCEPT !.text = chat[messageId + 1].mes,
                                      !.role = role, !.ent = e],
                include_history)
    /\ calls' = calls + 1
    /\ UNCHANGED <<cache, heap, localStorage, now, nextId, hist, settings,
                   summarizerClient>>

onMessageReceived(p) ==
    onMessage(p, "onMessageReceived", settings.summarize_bot, "assistant")

onMessageSent(p) ==
    onMessage(p, "onMessageSent", settings.summarize_user, "user")

\* onBeforePromptGeneration(data) up to the first await of
\* retrieveRelevantMemories (index.js:372-388, 580-588): the query is the
\* last message of the user.
onBeforePromptGeneration(p) ==
    /\ Free(p)
    /\ \E chat \in EventChats, characterId \in Chars \cup {NoCharacter},
          extensionPrompts \in {Missing, Given(<<>>)},
          top_k \in TopKSettings, similarity_threshold \in ThresholdSettings :
        LET loc == [Call("onBeforePromptGeneration") EXCEPT
                        !.extensionPrompts = extensionPrompts]
            users == {i \in 1..Len(chat) : chat[i].is_user /\ ~chat[i].is_system}
            last == CHOOSE i \in users : \A j \in users : j <= i
        IN  proc' = [proc EXCEPT ![p] =
                IF \/ ~RetrieveEnabled(settings)
                   \/ characterId = NoCharacter
                   \/ users = {}
                THEN Finish(loc, "ignored")
                ELSE [loc EXCEPT !.text = chat[last].mes, !.ent = characterId,
                                 !.args.topK = top_k,
                                 !.args.threshold = similarity_threshold,
                                 !.pc = "r_embed", !.stages.embed = "pending",
                                 !.inputType = queryInputType]]
    /\ calls' = calls + 1
    /\ UNCHANGED <<cache, heap, localStorage, now, nextId, isProcessing, hist,
                   settings, summarizerClient>>

\* The extension is initialised with the switches as they were saved, in
\* any position.
InitEvents ==
    /\ \E enabled \in BOOLEAN, auto_store \in BOOLEAN, auto_retrieve \in BOOLEAN,
          summarize_bot \in BOOLEAN, summarize_user \in BOOLEAN :
        settings = [defaultSettings EXCEPT
                        !.enabled = enabled, !.auto_store = auto_store,
                        !.auto_retrieve = auto_retrieve,
                        !.summarize_bot = summarize_bot,
                        !.summarize_user = summarize_user]
    /\ summarizerClient = SummarizerClient(defaultSettings.custom_prompt)
    /\ cache = [e \in Chars |-> NoObj]
    /\ heap = [i \in ObjIds |-> NilStore]
    /\ localStorage = [e \in Chars |-> <<>>]
    /\ now = 0
    /\ nextId = 1
    /\ proc = [p \in Procs |-> IdleProc]
    /\ calls = 0
    /\ isProcessing = FALSE
    /\ hist = NoHist

NextEvents ==
    \E p \in Procs :
        \/ onMessageReceived(p)
        \/ onMessageSent(p)
        \/ onBeforePromptGeneration(p)
        \/ HistoryLoaded(p)
        \/ SummarizeReturn(p)
        \/ EmbedReturn(p)
        \/ Stored(p)
        \/ StatsShown(p)
        \/ EmbedQueryReturn(p)
        \/ RetrieveLoaded(p)
        \/ FetchReturn(p)
        \/ AddPush(p)
        \/ Return(p)

SpecEvents == InitEvents /\ [][NextEvents]_vars

\* The switches do not let the handler of invocation p do its work.
SwitchedOff(loc) ==
    \/ loc.op = "onMessageReceived"
          /\ ~(settings.enabled /\ settings.auto_store /\ settings.summarize_bot)
    \/ loc.op = "onMessageSent"
          /\ ~(settings.enabled /\ settings.auto_store /\ settings.summarize_user)
    \/ loc.op = "onBeforePromptGeneration"
          /\ ~(settings.enabled /\ settings.auto_retrieve)

\* The entries in the extension prompts of the event of invocation p.
Entries(loc) == IF loc.extensionPrompts = Missing THEN <<>> ELSE loc.extensionPrompts[1]

\* C40: a host event whose switches are off (enabled, auto_store with
\* summarize_bot or summarize_user for a message, auto_retrieve before a
\* generation) makes no summarizer call and no embedding call, changes no
\* store and injects nothing; an event before a generation adds at most one
\* entry to the extension prompts, and only when a memory was retrieved.
C40_SwitchesGate ==
    /\ [](\A p \in Procs :
            /\ SwitchedOff(proc[p]) =>
                /\ proc[p].stages = NoStages
                /\ proc[p].pc = "done"
                /\ Entries(proc[p]) = <<>>
            /\ proc[p].op = "onBeforePromptGeneration" =>
                /\ Len(Entries(proc[p])) <= 1
                /\ Len(Entries(proc[p])) = 1 =>
                    /\ proc[p].pc = "done"
                    /\ Len(proc[p].res.value) > 0)
    /\ [][\A p \in Procs :
            (proc'[p] # proc[p] /\ (SwitchedOff(proc[p]) \/ SwitchedOff(proc'[p]))) =>
                UNCHANGED <<cache, heap, localStorage, isProcessing>>]_vars

\* With the extension enabled, auto_store on and summarize_bot off, the
\* handler of a received message has returned without doing anything.
C40_Witness ==
    /\ settings.enabled /\ settings.auto_store /\ ~settings.summarize_bot
    /\ \E p \in Procs :
        /\ proc[p].op = "onMessageReceived"
        /\ proc[p].pc = "done"
        /\ proc[p].res.tag = "ignored"

====
